---- MODULE Spec2Model ----
(***************************************************************************)
(* Session / cache consistency layer of the discordai bot.                 *)
(*                                                                         *)
(*   durable store   conversation_sessions, conversation_history (crud.py) *)
(*   fast store      Redis behind RedisClient (services/redis_utils.py)    *)
(*   SessionManager  ConversationContextManager                            *)
(*                   (services/conversation_service.py)                    *)
(*   dedup gate      on_message (discord_bot.py)                           *)
(*                                                                         *)
(* Every coroutine is cut at its awaits: one action is the code between    *)
(* two suspension points, so the interleavings TLC explores are the ones   *)
(* the asyncio scheduler (or a second process on the same stores) allows.  *)
(* Time is counted in ticks: thirty minutes where sessions are modelled,   *)
(* ten minutes where the dedup gate is.                                   *)
(***************************************************************************)
EXTENDS Naturals, Integers, Sequences, FiniteSets, TLC

\* ------------------------------------------------------------------ bounds
MaxTime     == 3      \* ticks the clock may advance
MaxSessions == 3      \* rows conversation_sessions may hold
MaxMsgs     == 3      \* rows conversation_history may hold
MaxSkew     == 2      \* seconds around the expiry boundary that are tried
MaxAsks     == 4      \* ResponseCache calls in one run
MaxCalls    == 3      \* RedisClient calls in one run
MaxExchanges == 2     \* messages handled one after the other

\* ---------------------------------------------------- program constants
session_timeout_minutes == 1   \* 30 minutes: one tick of the session clock
max_context_messages    == 20
DEDUP_TTL               == 1   \* expire_seconds=600: one tick of the dedup clock
max_attempts            == 3   \* session-creation attempts
timeout_delta           == 1800  \* timedelta(minutes=30), in seconds
REDIS_MAX_RETRIES       == 3
REDIS_ALERT_THRESHOLD   == 5
ttl                     == 2   \* ttl_seconds=300: two ticks of the cache clock
max_size                == 2   \* max_size=1000, scaled to the three keys tried

Users    == {"A", "B"}
Msgs     == {1, 2}      \* inbound message ids
Handlers == {1, 2, 3}   \* on_message invocations
Procs    == {1, 2, 3}
Roles    == {"user", "assistant"}
AnyRole  == Roles \cup {"system"}    \* the role argument as a caller may pass it
NoUser   == "-"
NoRole   == "-"

VARIABLES
    \* durable store
    sessions,       \* Seq of [user_id, status, message_count, last_active]; id = index
    messages,       \* Seq of [session_id, role], in creation order
    \* fast store (server side)
    ptr,            \* session:active:<user>  -> [sid, exp]   (sid = 0: no key)
    mcache,         \* session:messages:<id>  -> [val, exp]   (exp = 0: no key)
    dedup,          \* dedup:msg:<id>         -> [owner, exp] (exp = 0: no key)
    redisUp,        \* the Redis server answers
    \* RedisClient object
    enabled,        \* RedisClient.enabled
    client,         \* RedisClient.client: "none" | "connected"
    \* environment
    now,            \* wall clock, in ticks
    shutting_down,  \* what is_shutting_down() returns
    \* coroutines of the SessionManager
    pc,             \* position of each coroutine
    loc,            \* its arguments and local variables
    \* on_message handlers of the dedup gate
    hpc,            \* position of each handler
    hloc,           \* its message, its local variables and what it did
    sent,           \* messages sent to the channel, per inbound message id
    gh,             \* per message id: bookkeeping of the claim's history
    \* ResponseCache object (cache_service.py)
    cache,          \* self.cache: key -> [response, timestamp, access_count] or NoEntry
    stats,          \* self.hits, self.misses, self.evictions
    asked,          \* the last ResponseCache call and what it returned
    \* RedisClient calls seen attempt by attempt (redis_utils.py)
    failures,       \* RedisAlertState.consecutive_failures
    alerts,         \* critical "Persistent Redis failure" log lines written
    call,           \* the wrapper call in progress: operation, attempt, outcome
    ex              \* process_conversational_message in progress: position, locals

gate  == <<hpc, hloc, sent, gh>>
more  == <<cache, stats, asked, failures, alerts, call, ex>>
vars  == <<sessions, messages, ptr, mcache, dedup, redisUp, enabled, client, now,
           shutting_down, pc, loc, gate, more>>

SessionIds == 1..MaxSessions
NoPtr      == [sid |-> 0, exp |-> 0]
NoCache    == [val |-> <<>>, exp |-> 0]

\* ------------------------------------------------------------ RedisClient
\* How one call of the wrapper ends (redis_utils.py):
\*   "disabled"  not self.enabled: the default is returned at once
\*   "raise"     enabled but self.client is None: evaluating self.client.<op>
\*               for _retry raises AttributeError to the caller
\*   "served"    an attempt reaches the server
\*   "fallback"  all REDIS_MAX_RETRIES attempts fail, the fallback answers
ClientMode ==
    IF ~enabled THEN "disabled"
    ELSE IF client = "none" THEN "raise"
    ELSE IF redisUp THEN "served"
    ELSE "fallback"

\* RedisClient.get of session:active:<u>: the stored id, 0 for None
RedisGetPtr(u) == IF ClientMode = "served" THEN ptr[u].sid ELSE 0

\* server state after RedisClient.set(session:active:<u>, s, expire_seconds=timeout*60)
PtrAfterSet(u, s) ==
    IF ClientMode = "served"
    THEN [ptr EXCEPT ![u] = [sid |-> s, exp |-> now + session_timeout_minutes]]
    ELSE ptr

\* server state after RedisClient.delete(session:active:<u>)
PtrAfterDelete(u) ==
    IF ClientMode = "served" THEN [ptr EXCEPT ![u] = NoPtr] ELSE ptr

\* server state after RedisClient.set(session:messages:<s>, str(msgs), expire_seconds=timeout*60)
CacheAfterSet(s, msgs) ==
    IF ClientMode = "served"
    THEN [mcache EXCEPT ![s] = [val |-> msgs, exp |-> now + session_timeout_minutes]]
    ELSE mcache

\* RedisClient.get of session:messages:<s>: the cached list, <<>> for None
RedisGetCache(s) == IF ClientMode = "served" THEN mcache[s].val ELSE <<>>

\* RedisClient.initialize: from_url and ping; a failed ping disables the client
Initialize ==
    /\ enabled /\ client = "none"
    /\ IF redisUp
       THEN client' = "connected" /\ UNCHANGED enabled
       ELSE enabled' = FALSE /\ UNCHANGED client
    /\ UNCHANGED <<sessions, messages, ptr, mcache, dedup, gate, redisUp, now,
                   shutting_down, pc, loc, more>>

\* ------------------------------------------------------------ environment
\* keys whose expiry has been reached are gone from the server
Purge(store, none, t) ==
    [k \in DOMAIN store |-> IF store[k].exp # 0 /\ store[k].exp <= t THEN none ELSE store[k]]

NoClaim == [owner |-> 0, exp |-> 0]

\* Bookkeeping of a claim's history, not program state. An epoch of message
\* id m runs from one release call (or expiry of the key) to the next.
\*   calls   acquire calls completed in the current epoch
\*   dirty   the epoch began with a release the store did not serve, or holds
\*           an acquire the store did not serve
\*   lapsed  a claim of m has expired while the handler that set it was at work
NoHistory == [calls |-> 0, dirty |-> FALSE, lapsed |-> FALSE]

NewEpoch(isDirty, g) == [calls |-> 0, dirty |-> isDirty, lapsed |-> g.lapsed]

\* handler h is between its acquire and the end of its release
AtWork(h) == hpc[h] \in {"process", "send", "release"}

Tick ==
    /\ now < MaxTime
    /\ now' = now + 1
    /\ ptr' = Purge(ptr, NoPtr, now + 1)
    /\ mcache' = Purge(mcache, NoCache, now + 1)
    /\ dedup' = Purge(dedup, NoClaim, now + 1)
    /\ gh' = [m \in Msgs |->
                IF dedup[m].exp # 0 /\ dedup[m].exp <= now + 1
                THEN [NewEpoch(FALSE, gh[m]) EXCEPT
                        !.lapsed = gh[m].lapsed \/ AtWork(dedup[m].owner)]
                ELSE gh[m]]
    /\ UNCHANGED <<sessions, messages, redisUp, enabled, client, shutting_down,
                   pc, loc, hpc, hloc, sent, more>>

RedisFlip ==
    /\ redisUp' = ~redisUp
    /\ UNCHANGED <<sessions, messages, ptr, mcache, dedup, gate, enabled, client, now,
                   shutting_down, pc, loc, more>>

\* the fast store loses everything it holds (FLUSHALL, or a restart of the
\* server without persistence)
RedisFlush ==
    /\ ptr' = [u \in Users |-> NoPtr]
    /\ mcache' = [s \in SessionIds |-> NoCache]
    /\ dedup' = [m \in Msgs |-> NoClaim]
    /\ UNCHANGED <<sessions, messages, redisUp, enabled, client, now, shutting_down,
                   pc, loc, gate, more>>

\* safe_close sets shutdown_event; is_shutting_down() reports it from then on
Shutdown ==
    /\ ~shutting_down
    /\ shutting_down' = TRUE
    /\ UNCHANGED <<sessions, messages, ptr, mcache, dedup, gate, redisUp, enabled, client,
                   now, pc, loc, more>>

is_shutting_down == shutting_down

\* inside a coroutine the loop is running and not closed
is_event_loop_running == TRUE

\* ---------------------------------------------------------- durable store
\* models.py declares no unique constraint over (user_id, status): the only key
\* of conversation_sessions is the uuid4 primary key
UniqueActiveSession == FALSE

IsActive(s) == s \in DOMAIN sessions /\ sessions[s].status = "active"

ActiveOf(u) == {s \in DOMAIN sessions :
                  sessions[s].user_id = u /\ sessions[s].status = "active"}

\* the rows get_active_session_for_user(u) may return (0 for None):
\* ORDER BY last_active DESC, first(); among equal timestamps any row
get_active_session_for_user(u) ==
    IF is_shutting_down \/ ~is_event_loop_running \/ ActiveOf(u) = {}
    THEN {0}
    ELSE {s \in ActiveOf(u) :
            \A t \in ActiveOf(u) : sessions[t].last_active <= sessions[s].last_active}

\* the insert as it would be if the new row took the id of the newest one
create_conversation_session_same_id(u) ==
    IF sessions = <<>>
    THEN <<[user_id |-> u, status |-> "active", message_count |-> 0, last_active |-> now]>>
    ELSE [sessions EXCEPT ![Len(sessions)] =
             [user_id |-> u, status |-> "active", message_count |-> 0, last_active |-> now]]

\* the table after create_conversation_session(u): a fresh uuid4 row,
\* status 'active', message_count 0, last_active now()
create_conversation_session(u) ==
    Append(sessions, [user_id |-> u, status |-> "active",
                      message_count |-> 0, last_active |-> now])

\* create_conversation_session raises IntegrityError only where the schema
\* forbids a second active row for the user
CreateRaisesIntegrity(u) == UniqueActiveSession /\ ActiveOf(u) # {}

\* the table after end_conversation_session(s): status := 'ended'; the UPDATE
\* also fires last_active's onupdate=now(). No UPDATE when nothing changes.
end_conversation_session(s) ==
    IF IsActive(s)
    THEN [sessions EXCEPT ![s].status = "ended", ![s].last_active = now]
    ELSE sessions

\* the table after update_session_activity's commit: the detached row read
\* earlier (message_count = c) is written back as c + 1, last_active = now()
update_session_activity_commit(s, c) ==
    [sessions EXCEPT ![s].message_count = c + 1, ![s].last_active = now]

\* the table after create_conversation_message
create_conversation_message(s, r) ==
    Append(messages, [session_id |-> s, role |-> r])

\* the roles of the rows of session s, in creation order
HistoryOf(s) ==
    LET rows == SelectSeq(messages, LAMBDA m : m.session_id = s)
    IN  [i \in 1..Len(rows) |-> rows[i].role]

\* get_conversation_history(s, limit): ORDER BY created_at ASC LIMIT limit
get_conversation_history(s, limit) ==
    IF Len(HistoryOf(s)) > limit THEN SubSeq(HistoryOf(s), 1, limit) ELSE HistoryOf(s)

\* the comparison as it would be with >= for >
is_expired_inclusive(last_active, t, timeout) == t - last_active >= timeout

\* lines 342-345: is_expired = (now - last_active) > timeout_delta
is_expired(last_active, t, timeout) == t - last_active > timeout

\* the expiry test as it would be if a session were expired at the timeout itself
Expired_at_timeout(s) == sessions[s].last_active + session_timeout_minutes <= now

\* should_create_new_session / prune_old_sessions: now - last_active > timeout
Expired(s) == is_expired(sessions[s].last_active, now, session_timeout_minutes)

\* --------------------------------------------------- SessionManager calls
\* One coroutine per element of Procs; each runs one call.
\*   op, user, sid, role   the call and its arguments
\*   act                   active_session (get_or_create_session)
\*   valid                 redis_valid (add_message)
\*   cnt                   cs.message_count as read by update_session_activity
\*   attempt               attempt of the creation loop
\*   todo, n               expired_sessions / active_sessions still to visit, pruned_count
\*   cached                cached_msgs
\*   ret, val              how the call ended and what it returned (0 for None)
\*   peers                 calls of the same kind on the same user in flight with this one
\*   served                every fast-store call of recover_redis_state was served
\*   limit, ctx            max_messages and the rows returned (get_conversation_context)
\*   stale                 the session a pointer named that was found not active
\*   ended                 the sessions this call set to ended
\*   found, age            the active session the durable store gave at line 108 and
\*                         whether it was then past the timeout
\*   made                  the session this call created
Idle == [op |-> "none", user |-> NoUser, sid |-> 0, role |-> NoRole, act |-> 0,
         valid |-> TRUE, cnt |-> 0, attempt |-> 0, todo |-> {}, n |-> 0,
         cached |-> <<>>, ret |-> "none", val |-> 0, peers |-> {}, served |-> TRUE,
         limit |-> 0, ctx |-> <<>>, stale |-> 0, ended |-> {},
         found |-> 0, age |-> "none", made |-> 0]

\* what is left of a frame once the call has ended
Ended(l, how, v) ==
    [Idle EXCEPT !.op = l.op, !.user = l.user, !.sid = l.sid, !.role = l.role,
                 !.attempt = l.attempt,
                 !.valid = l.valid, !.peers = l.peers, !.served = l.served,
                 !.limit = l.limit, !.stale = l.stale, !.ended = l.ended, !.found = l.found,
                 !.age = l.age, !.made = l.made, !.ret = how, !.val = v]

Goto(p, where, l) ==
    /\ pc' = [pc EXCEPT ![p] = where]
    /\ loc' = [loc EXCEPT ![p] = l]

Return(p, v) == Goto(p, "done", Ended(loc[p], "returned", v))

Raise(p) == Goto(p, "done", Ended(loc[p], "raised", 0))

InFlight(p) == pc[p] \notin {"idle", "done"}

\* coroutines are interchangeable: they are taken in order
NextFree(p) == pc[p] = "idle" /\ \A q \in Procs : q < p => pc[q] # "idle"

\* ---- get_or_create_session(user_id)            conversation_service.py:82
CallGetOrCreate(p, u) ==
    /\ NextFree(p)
    /\ LET others == {q \in Procs \ {p} :
                        InFlight(q) /\ loc[q].op = "goc" /\ loc[q].user = u}
       IN /\ pc' = [pc EXCEPT ![p] = "g_redis_get"]
          /\ loc' = [q \in Procs |->
                       IF q = p THEN [Idle EXCEPT !.op = "goc", !.user = u, !.peers = others]
                       ELSE IF q \in others
                            THEN [loc[q] EXCEPT !.peers = loc[q].peers \cup {p}]
                            ELSE loc[q]]
    /\ UNCHANGED <<sessions, messages, ptr, mcache, dedup, gate, redisUp, enabled, client,
                   now, shutting_down, more>>

\* lines 89-99: shutdown guard, then the pointer is read from the fast store
GetOrCreate_redis_get(p) ==
    /\ pc[p] = "g_redis_get"
    /\ IF is_shutting_down \/ ~is_event_loop_running THEN Return(p, 0)
       ELSE IF ClientMode = "raise" THEN Raise(p)
       ELSE IF RedisGetPtr(loc[p].user) # 0
            THEN Goto(p, "g_confirm", [loc[p] EXCEPT !.sid = RedisGetPtr(loc[p].user)])
            ELSE Goto(p, "g_db", loc[p])
    /\ UNCHANGED <<sessions, messages, ptr, mcache, dedup, gate, redisUp, enabled, client,
                   now, shutting_down, more>>

\* the confirmation as it would be if finding the row were enough
confirmed_if_found(s) == s \in DOMAIN sessions

\* line 101: session_obj and session_obj.status == "active"
confirmed(s) == IsActive(s)

\* lines 100-104: the pointed-to session is confirmed in the durable store
GetOrCreate_confirm(p) ==
    /\ pc[p] = "g_confirm"
    /\ IF confirmed(loc[p].sid) THEN Return(p, loc[p].sid)
       ELSE Goto(p, "g_unpoint", loc[p])
    /\ UNCHANGED <<sessions, messages, ptr, mcache, dedup, gate, redisUp, enabled, client,
                   now, shutting_down, more>>

\* line 105: the stale pointer is deleted
GetOrCreate_unpoint(p) ==
    /\ pc[p] = "g_unpoint"
    /\ IF ClientMode = "raise"
       THEN Raise(p) /\ UNCHANGED ptr
       ELSE /\ ptr' = PtrAfterDelete(loc[p].user)
            /\ Goto(p, "g_db", [loc[p] EXCEPT !.sid = 0, !.stale = loc[p].sid])
    /\ UNCHANGED <<sessions, messages, mcache, dedup, gate, redisUp, enabled, client,
                   now, shutting_down, more>>

\* lines 107-112: fallback to the durable store
GetOrCreate_db(p) ==
    /\ pc[p] = "g_db"
    /\ \E a \in get_active_session_for_user(loc[p].user) :
          IF a # 0
          THEN Goto(p, "g_expiry",
                    [loc[p] EXCEPT !.act = a, !.found = a,
                                   !.age = IF Expired(a) THEN "expired" ELSE "fresh"])
          ELSE Goto(p, "g_create", loc[p])
    /\ UNCHANGED <<sessions, messages, ptr, mcache, dedup, gate, redisUp, enabled, client,
                   now, shutting_down, more>>

\* should_create_new_session(user_id), lines 297-362: queries the user's active
\* session again and compares its age with the timeout
should_create_new_session(a) == a = 0 \/ Expired(a)

\* line 114
GetOrCreate_expiry(p) ==
    /\ pc[p] = "g_expiry"
    /\ \E a \in get_active_session_for_user(loc[p].user) :
          IF ~should_create_new_session(a) THEN Goto(p, "g_adopt", loc[p])
          ELSE Goto(p, "g_end", loc[p])
    /\ UNCHANGED <<sessions, messages, ptr, mcache, dedup, gate, redisUp, enabled, client,
                   now, shutting_down, more>>

\* lines 115-118: the session found is adopted and the pointer repopulated
GetOrCreate_adopt(p) ==
    /\ pc[p] = "g_adopt"
    /\ IF ClientMode = "raise"
       THEN Raise(p) /\ UNCHANGED ptr
       ELSE ptr' = PtrAfterSet(loc[p].user, loc[p].act) /\ Return(p, loc[p].act)
    /\ UNCHANGED <<sessions, messages, mcache, dedup, gate, redisUp, enabled, client,
                   now, shutting_down, more>>

\* lines 120-121: the expired session is ended
GetOrCreate_end(p) ==
    /\ pc[p] = "g_end"
    /\ sessions' = end_conversation_session(loc[p].act)
    /\ Goto(p, "g_unpoint2", [loc[p] EXCEPT !.ended = @ \cup {loc[p].act}])
    /\ UNCHANGED <<messages, ptr, mcache, dedup, gate, redisUp, enabled, client,
                   now, shutting_down, more>>

\* lines 122-123
GetOrCreate_unpoint2(p) ==
    /\ pc[p] = "g_unpoint2"
    /\ IF ClientMode = "raise"
       THEN Raise(p) /\ UNCHANGED ptr
       ELSE /\ ptr' = PtrAfterDelete(loc[p].user)
            /\ Goto(p, "g_create", [loc[p] EXCEPT !.act = 0,
                                                  !.served = ClientMode = "served"])
    /\ UNCHANGED <<sessions, messages, mcache, dedup, gate, redisUp, enabled, client,
                   now, shutting_down, more>>

\* the loop as it would be with one attempt more
more_attempts_than_max(attempt) == attempt < max_attempts

\* line 129, for attempt in range(max_attempts): another attempt follows this one
more_attempts(attempt) == attempt + 1 < max_attempts

\* lines 130-132 and 137-144: one attempt of the creation loop. On
\* IntegrityError (line 137) the user's active session is queried again
\* (line 139) and adopted when there is one; otherwise the loop goes on, and
\* raises RuntimeError after the last attempt (line 149).
GetOrCreate_create(p) ==
    /\ pc[p] \in {"g_create", "g_requery"}
    /\ IF pc[p] = "g_requery"
       THEN /\ \E a \in get_active_session_for_user(loc[p].user) :
                 IF a # 0
                 THEN Goto(p, "g_point_new", [loc[p] EXCEPT !.act = a,
                                                           !.attempt = max_attempts - 1])
                 ELSE IF more_attempts(loc[p].attempt)
                      THEN Goto(p, "g_create", [loc[p] EXCEPT !.attempt = @ + 1])
                      ELSE Raise(p)
            /\ UNCHANGED sessions
       ELSE IF CreateRaisesIntegrity(loc[p].user)
            THEN Goto(p, "g_requery", loc[p]) /\ UNCHANGED sessions
            ELSE /\ Len(sessions) < MaxSessions
                 /\ sessions' = create_conversation_session(loc[p].user)
                 /\ Goto(p, "g_point_new", [loc[p] EXCEPT !.act = Len(sessions) + 1,
                                                          !.made = Len(sessions) + 1])
    /\ UNCHANGED <<messages, ptr, mcache, dedup, gate, redisUp, enabled, client,
                   now, shutting_down, more>>

\* lines 134-136 (and 142-144 for an adopted winner, whose frame is on its
\* last attempt: an exception there leaves the call). An exception of the
\* pointer write at line 135 is caught by line 145 and the loop creates
\* again, or re-raises on the last attempt.
GetOrCreate_point_new(p) ==
    /\ pc[p] = "g_point_new"
    /\ IF ClientMode = "raise"
       THEN /\ IF more_attempts(loc[p].attempt)
               THEN Goto(p, "g_create", [loc[p] EXCEPT !.attempt = @ + 1, !.act = 0])
               ELSE Raise(p)
            /\ UNCHANGED ptr
       ELSE ptr' = PtrAfterSet(loc[p].user, loc[p].act) /\ Return(p, loc[p].act)
    /\ UNCHANGED <<sessions, messages, mcache, dedup, gate, redisUp, enabled, client,
                   now, shutting_down, more>>

\* ---- should_create_new_session(user_id)        conversation_service.py:297
\* called on its own, with the clock in seconds; val is 1 for True, 0 for False
CallShouldCreate(p, u) ==
    /\ NextFree(p)
    /\ Goto(p, "s_query", [Idle EXCEPT !.op = "expiry", !.user = u])
    /\ UNCHANGED <<sessions, messages, ptr, mcache, dedup, gate, redisUp, enabled, client,
                   now, shutting_down, more>>

\* lines 314-357: the active session is queried; none, or one older than the
\* timeout, gives True
ShouldCreate_query(p) ==
    /\ pc[p] = "s_query"
    /\ \E a \in get_active_session_for_user(loc[p].user) :
          Return(p, IF a = 0 \/ is_expired(sessions[a].last_active, now, timeout_delta)
                    THEN 1 ELSE 0)
    /\ UNCHANGED <<sessions, messages, ptr, mcache, dedup, gate, redisUp, enabled, client,
                   now, shutting_down, more>>

\* ---- add_message(session_id, user_id, message, role)          line 151
\* the handler passes the session it resolved for the user: user_id is the
\* session's owner
CallAddMessage(p, s, r) ==
    /\ NextFree(p)
    /\ s \in DOMAIN sessions
    /\ Goto(p, "a_redis_get", [Idle EXCEPT !.op = "add", !.user = sessions[s].user_id,
                                          !.sid = s, !.role = r])
    /\ UNCHANGED <<sessions, messages, ptr, mcache, dedup, gate, redisUp, enabled, client,
                   now, shutting_down, more>>

\* process_conversational_message, discord_bot.py:272-276: the user message
\* and the reply are stored by two add_message coroutines run by one gather
GatherAddMessages(p, q, s) ==
    /\ NextFree(p) /\ q = p + 1 /\ q \in Procs
    /\ s \in DOMAIN sessions
    /\ pc' = [pc EXCEPT ![p] = "a_redis_get", ![q] = "a_redis_get"]
    /\ loc' = [loc EXCEPT
                 ![p] = [Idle EXCEPT !.op = "add", !.user = sessions[s].user_id,
                                     !.sid = s, !.role = "user", !.peers = {q}],
                 ![q] = [Idle EXCEPT !.op = "add", !.user = sessions[s].user_id,
                                     !.sid = s, !.role = "assistant", !.peers = {p}]]
    /\ UNCHANGED <<sessions, messages, ptr, mcache, dedup, gate, redisUp, enabled, client,
                   now, shutting_down, more>>

\* the role check as it would be if it let every role through
invalid_role_never(r) == FALSE

\* line 168: role not in ["user", "assistant"]
invalid_role(r) == r \notin {"user", "assistant"}

\* lines 164-180: shutdown guard, role check, stale-session check
AddMessage_redis_get(p) ==
    /\ pc[p] = "a_redis_get"
    /\ IF is_shutting_down THEN Return(p, 0)
       ELSE IF invalid_role(loc[p].role) THEN Raise(p)
       ELSE IF ClientMode = "raise" THEN Raise(p)
       ELSE Goto(p, "a_check", [loc[p] EXCEPT !.valid = (RedisGetPtr(loc[p].user) = loc[p].sid)])
    /\ UNCHANGED <<sessions, messages, ptr, mcache, dedup, gate, redisUp, enabled, client,
                   now, shutting_down, more>>

\* lines 182-190: the session must be active in the durable store
AddMessage_check(p) ==
    /\ pc[p] = "a_check"
    /\ IF IsActive(loc[p].sid) THEN Goto(p, "a_recheck", loc[p])
       ELSE Goto(p, "a_unpoint", loc[p])
    /\ UNCHANGED <<sessions, messages, ptr, mcache, dedup, gate, redisUp, enabled, client,
                   now, shutting_down, more>>

\* lines 191-193: closed or invalid session, the user's pointer is deleted
AddMessage_unpoint(p) ==
    /\ pc[p] = "a_unpoint"
    /\ IF ClientMode = "raise"
       THEN Raise(p) /\ UNCHANGED ptr
       ELSE ptr' = PtrAfterDelete(loc[p].user) /\ Return(p, 0)
    /\ UNCHANGED <<sessions, messages, mcache, dedup, gate, redisUp, enabled, client,
                   now, shutting_down, more>>

\* lines 196-201: the session is read once more
AddMessage_recheck(p) ==
    /\ pc[p] = "a_recheck"
    /\ IF IsActive(loc[p].sid) THEN Goto(p, "a_create", loc[p])
       ELSE Return(p, 0)
    /\ UNCHANGED <<sessions, messages, ptr, mcache, dedup, gate, redisUp, enabled, client,
                   now, shutting_down, more>>

\* lines 202-209: the message row is written
AddMessage_create(p) ==
    /\ pc[p] = "a_create"
    /\ Len(messages) < MaxMsgs
    /\ messages' = create_conversation_message(loc[p].sid, loc[p].role)
    /\ Goto(p, IF loc[p].valid THEN "a_cache_get" ELSE "a_activity_read", loc[p])
    /\ UNCHANGED <<sessions, ptr, mcache, dedup, gate, redisUp, enabled, client,
                   now, shutting_down, more>>

\* lines 217-225: the cached recent messages are read (exceptions are caught
\* by line 239)
AddMessage_cache_get(p) ==
    /\ pc[p] = "a_cache_get"
    /\ IF ClientMode = "raise" THEN Goto(p, "a_activity_read", loc[p])
       ELSE Goto(p, "a_cache_set", [loc[p] EXCEPT !.cached = RedisGetCache(loc[p].sid)])
    /\ UNCHANGED <<sessions, messages, ptr, mcache, dedup, gate, redisUp, enabled, client,
                   now, shutting_down, more>>

\* cached_msgs[-max_context_messages:]
TrimRecent(msgs) ==
    IF Len(msgs) > max_context_messages
    THEN SubSeq(msgs, Len(msgs) - max_context_messages + 1, Len(msgs))
    ELSE msgs

\* lines 226-238: the message is appended, the list trimmed and written back
AddMessage_cache_set(p) ==
    /\ pc[p] = "a_cache_set"
    /\ mcache' = IF ClientMode = "raise" THEN mcache
                 ELSE CacheAfterSet(loc[p].sid, TrimRecent(Append(loc[p].cached, loc[p].role)))
    /\ Goto(p, "a_activity_read", [loc[p] EXCEPT !.cached = <<>>])
    /\ UNCHANGED <<sessions, messages, ptr, dedup, gate, redisUp, enabled, client,
                   now, shutting_down, more>>

\* ---- update_session_activity(session_id, 1)               crud.py:305
\* called by add_message (line 242), or on its own
CallUpdateActivity(p, s) ==
    /\ NextFree(p)
    /\ s \in DOMAIN sessions
    /\ Goto(p, "a_activity_read", [Idle EXCEPT !.op = "activity", !.sid = s])
    /\ UNCHANGED <<sessions, messages, ptr, mcache, dedup, gate, redisUp, enabled, client,
                   now, shutting_down, more>>

\* crud.py:312: the session row is read
UpdateActivity_read(p) ==
    /\ pc[p] = "a_activity_read"
    /\ Goto(p, "a_activity_commit", [loc[p] EXCEPT !.cnt = sessions[loc[p].sid].message_count])
    /\ UNCHANGED <<sessions, messages, ptr, mcache, dedup, gate, redisUp, enabled, client,
                   now, shutting_down, more>>

\* crud.py:313-318: count + 1 and last_active are committed
UpdateActivity_commit(p) ==
    /\ pc[p] = "a_activity_commit"
    /\ sessions' = update_session_activity_commit(loc[p].sid, loc[p].cnt)
    /\ IF loc[p].op = "activity" THEN Return(p, loc[p].sid)
       ELSE Goto(p, "a_point", [loc[p] EXCEPT !.cnt = 0])
    /\ UNCHANGED <<messages, ptr, mcache, dedup, gate, redisUp, enabled, client,
                   now, shutting_down, more>>

\* lines 243-247: the pointer is written (an exception is caught and logged)
AddMessage_point(p) ==
    /\ pc[p] = "a_point"
    /\ ptr' = IF ClientMode = "raise" THEN ptr ELSE PtrAfterSet(loc[p].user, loc[p].sid)
    /\ Return(p, 0)
    /\ UNCHANGED <<sessions, messages, mcache, dedup, gate, redisUp, enabled, client,
                   now, shutting_down, more>>

\* ---- get_conversation_context(session_id, max_messages)         line 272
\* the ids of the rows of session s, in creation order (row id = position in
\* the table)
RowsOf(s) ==
    SelectSeq([i \in 1..Len(messages) |-> i], LAMBDA i : messages[i].session_id = s)

\* crud.py:387-391: ORDER BY created_at ASC LIMIT limit
order_asc_limit(rows, limit) ==
    IF Len(rows) > limit THEN SubSeq(rows, 1, limit) ELSE rows

\* the values of max_messages tried; None stands for max_context_messages
ContextLimits == {1, 2, max_context_messages}

CallContext(p, s, n) ==
    /\ NextFree(p)
    /\ s \in DOMAIN sessions
    /\ Goto(p, "x_query", [Idle EXCEPT !.op = "context", !.sid = s, !.limit = n])
    /\ UNCHANGED <<sessions, messages, ptr, mcache, dedup, gate, redisUp, enabled, client,
                   now, shutting_down, more>>

\* lines 282-295: the rows of get_conversation_history, one dict per row
Context_query(p) ==
    /\ pc[p] = "x_query"
    /\ Goto(p, "done", [Ended(loc[p], "returned", 0) EXCEPT
                          !.ctx = order_asc_limit(RowsOf(loc[p].sid), loc[p].limit)])
    /\ UNCHANGED <<sessions, messages, ptr, mcache, dedup, gate, redisUp, enabled, client,
                   now, shutting_down, more>>

\* line 282 when session.execute raises: no handler in get_conversation_context
Context_db_error(p) ==
    /\ pc[p] = "x_query"
    /\ Raise(p)
    /\ UNCHANGED <<sessions, messages, ptr, mcache, dedup, gate, redisUp, enabled, client,
                   now, shutting_down, more>>

\* crud.create_conversation_message called for a session, crud.py:351
StoreMessage(s, r) ==
    /\ s \in DOMAIN sessions
    /\ Len(messages) < MaxMsgs
    /\ messages' = create_conversation_message(s, r)
    /\ UNCHANGED <<sessions, ptr, mcache, dedup, gate, redisUp, enabled, client,
                   now, shutting_down, pc, loc, more>>

\* ---- crud.create_conversation_session(user_id) called on its own, crud.py:240
CallCreateSession(p, u) ==
    /\ NextFree(p)
    /\ Goto(p, "c_commit", [Idle EXCEPT !.op = "create", !.user = u,
                              !.peers = {q \in Procs : InFlight(q) /\ loc[q].op = "create"}])
    /\ UNCHANGED <<sessions, messages, ptr, mcache, dedup, gate, redisUp, enabled, client,
                   now, shutting_down, more>>

\* crud.py:246-256: the row is added under a fresh uuid4, committed, refreshed
\* and returned; val is the id of the row
CreateSession_commit(p) ==
    /\ pc[p] = "c_commit"
    /\ Len(sessions) < MaxSessions
    /\ sessions' = create_conversation_session(loc[p].user)
    /\ Return(p, Len(sessions'))
    /\ UNCHANGED <<messages, ptr, mcache, dedup, gate, redisUp, enabled, client,
                   now, shutting_down, more>>

\* ---- end_session(session_id, user_id=None)                     line 364
CallEndSession(p, s, u) ==
    /\ NextFree(p)
    /\ s \in DOMAIN sessions
    /\ u \in {sessions[s].user_id, NoUser}
    /\ Goto(p, "e_end", [Idle EXCEPT !.op = "end", !.user = u, !.sid = s])
    /\ UNCHANGED <<sessions, messages, ptr, mcache, dedup, gate, redisUp, enabled, client,
                   now, shutting_down, more>>

\* lines 376-382
EndSession_end(p) ==
    /\ pc[p] = "e_end"
    /\ sessions' = end_conversation_session(loc[p].sid)
    /\ IF loc[p].user # NoUser THEN Goto(p, "e_unpoint", loc[p]) ELSE Return(p, 0)
    /\ UNCHANGED <<messages, ptr, mcache, dedup, gate, redisUp, enabled, client,
                   now, shutting_down, more>>

\* lines 383-387
EndSession_unpoint(p) ==
    /\ pc[p] = "e_unpoint"
    /\ IF ClientMode = "raise"
       THEN Raise(p) /\ UNCHANGED ptr
       ELSE ptr' = PtrAfterDelete(loc[p].user) /\ Return(p, 0)
    /\ UNCHANGED <<sessions, messages, mcache, dedup, gate, redisUp, enabled, client,
                   now, shutting_down, more>>

\* ---- prune_old_sessions()                                      line 509
CallPrune(p) ==
    /\ NextFree(p)
    /\ Goto(p, "p_select", [Idle EXCEPT !.op = "prune"])
    /\ UNCHANGED <<sessions, messages, ptr, mcache, dedup, gate, redisUp, enabled, client,
                   now, shutting_down, more>>

\* lines 534-543: the active sessions older than the cutoff are selected
Prune_select(p) ==
    /\ pc[p] = "p_select"
    /\ Goto(p, "p_loop", [loc[p] EXCEPT !.todo = {s \in DOMAIN sessions :
                                                   IsActive(s) /\ Expired(s)}])
    /\ UNCHANGED <<sessions, messages, ptr, mcache, dedup, gate, redisUp, enabled, client,
                   now, shutting_down, more>>

\* lines 546-562: each selected session is ended, then the count is returned
Prune_loop(p) ==
    /\ pc[p] = "p_loop"
    /\ IF loc[p].todo = {}
       THEN Return(p, loc[p].n) /\ UNCHANGED sessions
       ELSE \E s \in loc[p].todo :
              /\ sessions' = end_conversation_session(s)
              /\ Goto(p, "p_loop", [loc[p] EXCEPT !.todo = @ \ {s}, !.n = @ + 1,
                                                  !.ended = @ \cup {s}])
    /\ UNCHANGED <<messages, ptr, mcache, dedup, gate, redisUp, enabled, client,
                   now, shutting_down, more>>

\* ---- recover_redis_state()                      conversation_service.py:51
\* crud.py under src/ defines no get_all_active_sessions; it is taken to be the
\* listing of the durable rows whose status is 'active' (list_active_sessions
\* of the design, section 6).
get_all_active_sessions == {s \in DOMAIN sessions : IsActive(s)}

CallRecover(p) ==
    /\ NextFree(p)
    /\ Goto(p, "r_list", [Idle EXCEPT !.op = "recover"])
    /\ UNCHANGED <<sessions, messages, ptr, mcache, dedup, gate, redisUp, enabled, client,
                   now, shutting_down, more>>

\* lines 56-59: active_sessions = await get_all_active_sessions()
Recover_list(p) ==
    /\ pc[p] = "r_list"
    /\ Goto(p, "r_point", [loc[p] EXCEPT !.todo = get_all_active_sessions])
    /\ UNCHANGED <<sessions, messages, ptr, mcache, dedup, gate, redisUp, enabled, client,
                   now, shutting_down, more>>

\* lines 60-62: the next session of the listing (in whatever order the query
\* gave) gets the pointer of its user; line 78 once the listing is exhausted.
\* Lines 79-80: an exception of the fast store ends the pass, logged.
Recover_point(p) ==
    /\ pc[p] = "r_point"
    /\ IF loc[p].todo = {} THEN Return(p, 0) /\ UNCHANGED ptr
       ELSE IF ClientMode = "raise"
            THEN /\ Goto(p, "done", Ended([loc[p] EXCEPT !.served = FALSE], "returned", 0))
                 /\ UNCHANGED ptr
       ELSE \E s \in loc[p].todo :
              /\ ptr' = PtrAfterSet(sessions[s].user_id, s)
              /\ Goto(p, "r_history", [loc[p] EXCEPT !.sid = s, !.todo = @ \ {s},
                                         !.served = @ /\ ClientMode = "served"])
    /\ UNCHANGED <<sessions, messages, mcache, dedup, gate, redisUp, enabled, client,
                   now, shutting_down, more>>

\* line 64: messages = await get_conversation_history(session.id, limit=20)
Recover_history(p) ==
    /\ pc[p] = "r_history"
    /\ Goto(p, "r_cache",
            [loc[p] EXCEPT !.cached = get_conversation_history(loc[p].sid, max_context_messages)])
    /\ UNCHANGED <<sessions, messages, ptr, mcache, dedup, gate, redisUp, enabled, client,
                   now, shutting_down, more>>

\* lines 65-77: the history is cached under session:messages:<id>
Recover_cache(p) ==
    /\ pc[p] = "r_cache"
    /\ IF ClientMode = "raise"
       THEN /\ Goto(p, "done", Ended([loc[p] EXCEPT !.served = FALSE], "returned", 0))
            /\ UNCHANGED mcache
       ELSE /\ mcache' = CacheAfterSet(loc[p].sid, loc[p].cached)
            /\ Goto(p, "r_point", [loc[p] EXCEPT !.cached = <<>>,
                                     !.served = @ /\ ClientMode = "served"])
    /\ UNCHANGED <<sessions, messages, ptr, dedup, gate, redisUp, enabled, client,
                   now, shutting_down, more>>

\* ---- on_message(message)                               discord_bot.py:144
\* One handler per delivery of an inbound message.
\*   msg        message.id
\*   acquired   the local of that name
\*   out        what process_conversational_message gave: "text", "empty", "raised"
\*              ("none" outside the try block)
\* and, as bookkeeping for the properties,
\*   how        ClientMode when the acquire ran
\*   res        what the acquire yielded: "true", "false", "raised"
\*   first      no acquire of msg had completed in the epoch before this one
\*   clean      the acquire was served and the epoch was not dirty
\*   held       the key was set, and its setter at work, when the acquire ran
\*   sends      messages this handler sent to the channel
HIdle == [msg |-> 0, acquired |-> FALSE, out |-> "none", how |-> "none",
          res |-> "none", first |-> FALSE, clean |-> FALSE, held |-> FALSE,
          sends |-> 0]

GateIdle ==
    /\ hpc = [h \in Handlers |-> "idle"]
    /\ hloc = [h \in Handlers |-> HIdle]
    /\ sent = [m \in Msgs |-> 0]
    /\ gh = [m \in Msgs |-> NoHistory]

HGoto(h, where, l) ==
    /\ hpc' = [hpc EXCEPT ![h] = where]
    /\ hloc' = [hloc EXCEPT ![h] = l]

HNextFree(h) == hpc[h] = "idle" /\ \A g \in Handlers : g < h => hpc[g] # "idle"

\* the ids a handler may be given: the last handler takes either id, the
\* others the first (which id is delivered more often is immaterial)
Deliverable(h) == IF \E g \in Handlers : g > h THEN {1} ELSE Msgs

\* set_if_not_exists as it would be with the nx flag lost: the SET always lands
set_if_not_exists_without_nx(m) == TRUE

\* RedisClient.set_if_not_exists(dedup:msg:<m>, "1", expire_seconds=600):
\* SET NX EX on the server, `result is True`; True at once when disabled,
\* True from the fallback when every attempt failed
set_if_not_exists(m) ==
    IF ClientMode = "served" THEN dedup[m].exp = 0 ELSE TRUE

\* the server after that call, made by handler h
DedupAfterSetNX(m, h) ==
    IF ClientMode = "served" /\ dedup[m].exp = 0
    THEN [dedup EXCEPT ![m] = [owner |-> h, exp |-> now + DEDUP_TTL]]
    ELSE dedup

\* delete as it would be with another key than the one the acquire set
DedupAfterDelete_other_key(m) == dedup

\* the server after RedisClient.delete(dedup:msg:<m>)
DedupAfterDelete(m) ==
    IF ClientMode = "served" THEN [dedup EXCEPT ![m] = NoClaim] ELSE dedup

\* lines 168-171 as they would be without the return
after_acquire_without_return(acquired) == "process"

\* lines 168-171: if not acquired: return
after_acquire(acquired) == IF acquired THEN "process" ELSE "done"

\* lines 145-165: a delivery that is neither the bot's own nor a command
Deliver(h, m) ==
    /\ HNextFree(h)
    /\ HGoto(h, "acquire", [HIdle EXCEPT !.msg = m])
    /\ UNCHANGED <<sessions, messages, ptr, mcache, dedup, redisUp, enabled, client,
                   now, shutting_down, pc, loc, sent, gh, more>>

\* lines 166-171: acquired = await set_if_not_exists(...); return when not acquired.
\* The call stands outside the try: with no client its AttributeError leaves
\* on_message.
Acquire(h) ==
    /\ hpc[h] = "acquire"
    /\ LET m == hloc[h].msg
           l == [hloc[h] EXCEPT !.how = ClientMode,
                                !.first = (gh[m].calls = 0),
                                !.clean = (ClientMode = "served" /\ ~gh[m].dirty),
                                !.held = (dedup[m].exp # 0 /\ AtWork(dedup[m].owner))]
       IN /\ IF ClientMode = "raise"
             THEN HGoto(h, "done", [l EXCEPT !.res = "raised"])
             ELSE HGoto(h, after_acquire(set_if_not_exists(m)),
                        [l EXCEPT !.res = IF set_if_not_exists(m) THEN "true" ELSE "false",
                                  !.acquired = set_if_not_exists(m)])
          /\ dedup' = DedupAfterSetNX(m, h)
          /\ gh' = [gh EXCEPT ![m].calls = @ + 1,
                              ![m].dirty = @ \/ ClientMode # "served"]
    /\ UNCHANGED <<sessions, messages, ptr, mcache, redisUp, enabled, client,
                   now, shutting_down, pc, loc, sent, more>>

\* lines 173-176: response_text = await process_conversational_message(message):
\* a text (fresh, cached or an apology), nothing, or an exception
Process(h) ==
    /\ hpc[h] = "process"
    /\ \E o \in {"text", "empty", "raised"} :
         HGoto(h, IF o = "empty" THEN "release" ELSE "send", [hloc[h] EXCEPT !.out = o])
    /\ UNCHANGED <<sessions, messages, ptr, mcache, dedup, redisUp, enabled, client,
                   now, shutting_down, pc, loc, sent, gh, more>>

\* lines 177-178: the reply is sent; lines 180-187: after an exception the
\* apology is sent instead
Send(h) ==
    /\ hpc[h] = "send"
    /\ HGoto(h, "release", [hloc[h] EXCEPT !.sends = @ + 1])
    /\ sent' = [sent EXCEPT ![hloc[h].msg] = @ + 1]
    /\ UNCHANGED <<sessions, messages, ptr, mcache, dedup, redisUp, enabled, client,
                   now, shutting_down, pc, loc, gh, more>>

\* the delete as it would be at the end of the try block, skipped by an exception
finally_deletes_unless_raised(l) == l.acquired /\ l.out # "raised"

\* lines 187-189: finally: if msg_id is not None and acquired
finally_deletes(l) == l.acquired

\* lines 188-190: finally: if acquired: await redis_client.delete(dedup_key)
Release(h) ==
    /\ hpc[h] = "release"
    /\ HGoto(h, "done", [hloc[h] EXCEPT !.out = "none"])
    /\ IF finally_deletes(hloc[h]) /\ ClientMode # "raise"
       THEN /\ dedup' = DedupAfterDelete(hloc[h].msg)
            /\ gh' = [gh EXCEPT ![hloc[h].msg] = NewEpoch(ClientMode # "served", @)]
       ELSE UNCHANGED <<dedup, gh>>
    /\ UNCHANGED <<sessions, messages, ptr, mcache, redisUp, enabled, client,
                   now, shutting_down, pc, loc, sent, more>>

\* ------------------------------------------- ResponseCache, retry: at rest
CacheKeys == {"a", "b", "c"}    \* _generate_key of three distinct (message, intent)
Replies   == {"r1", "r2"}       \* response texts

\* no entry under a key (a stored entry has access_count >= 1)
NoEntry == [response |-> "-", timestamp |-> 0, access_count |-> 0]

\* op, key: the call; ret: what it returned ("-" for None); victim: the key it
\* deleted from the map; n: calls made so far
NoAsk == [op |-> "none", key |-> "-", ret |-> "-", victim |-> "-", n |-> 0]

\* op: the wrapper method; attempt: the loop variable of _retry; at: "try" in
\* the loop, "fallback" past it, "done" once the method has returned or raised;
\* ret: what it returned; tried, failed: attempts made and failed in this call;
\* ok: the last attempt was answered by the server; fellback: the fallback ran;
\* n: calls made so far; base: consecutive_failures when the call began.
\* Bookkeeping across calls: run counts the failed attempts since the last
\* answered one, warned says whether one of them wrote the critical line.
NoCall == [op |-> "none", attempt |-> 0, at |-> "idle", ret |-> "-",
           tried |-> 0, failed |-> 0, ok |-> FALSE, fellback |-> FALSE,
           n |-> 0, run |-> 0, warned |-> FALSE, base |-> 0]

\* at: position in process_conversational_message; user, text: the message;
\* intent, sid, reply: the locals intent, session.id, response_text; ret: what
\* the call returned ("raised" for an exception); n: calls made so far.
\* Bookkeeping: cached says that this call inserted into the response cache,
\* dbfail that a durable-store statement of this call raised, rows how many
\* message rows there were when the first one did.
ExIdle == [at |-> "idle", user |-> NoUser, text |-> "-", intent |-> "-", sid |-> 0,
           reply |-> "-", ret |-> "-", n |-> 0,
           cached |-> FALSE, dbfail |-> FALSE, rows |-> 0]

MoreIdle ==
    /\ cache = [k \in CacheKeys |-> NoEntry]
    /\ stats = [hits |-> 0, misses |-> 0, evictions |-> 0]
    /\ asked = NoAsk
    /\ failures = 0
    /\ alerts = 0
    /\ call = NoCall
    /\ ex = ExIdle

\* ---- ResponseCache                                  cache_service.py:14
\* Every method body runs under self.lock without suspending: one action each.
Resident == {k \in DOMAIN cache : cache[k] # NoEntry}

\* the expiry test as it would be without the timestamp
cache_expired_from_epoch(entry, t) == t > ttl

\* lines 88 and 144: current_time - timestamp > self.ttl
cache_expired(entry, t) == t - entry.timestamp > ttl

\* the eviction order as it would be by timestamp alone
lru_before_by_age(e1, e2) == e1.timestamp < e2.timestamp

\* line 129: the sort key (access_count, timestamp), compared as tuples
lru_before(e1, e2) ==
    \/ e1.access_count < e2.access_count
    \/ e1.access_count = e2.access_count /\ e1.timestamp < e2.timestamp

\* lines 127-130: min() over the keys; among equal pairs the first in the
\* dictionary's order, which is not modelled: any of them
lru_key == {k \in Resident : \A j \in Resident : ~lru_before(cache[j], cache[k])}

Ask(op, k, r, v) == [op |-> op, key |-> k, ret |-> r, victim |-> v, n |-> asked.n + 1]

\* the body of ResponseCache.get for key k, lines 77-96
get_under_lock(k) ==
    IF cache[k] = NoEntry
    THEN /\ stats' = [stats EXCEPT !.misses = @ + 1]
         /\ asked' = Ask("get", k, "-", "-")
         /\ UNCHANGED cache
    ELSE IF cache_expired(cache[k], now)
    THEN /\ cache' = [cache EXCEPT ![k] = NoEntry]
         /\ stats' = [stats EXCEPT !.misses = @ + 1]
         /\ asked' = Ask("get", k, "-", k)
    ELSE /\ cache' = [cache EXCEPT ![k].access_count = @ + 1]
         /\ stats' = [stats EXCEPT !.hits = @ + 1]
         /\ asked' = Ask("get", k, cache[k].response, "-")

\* the test as it would be if the cache had to be over its size
cache_full_when_over == Cardinality(Resident) > max_size

\* line 108: len(self.cache) >= self.max_size
cache_full == Cardinality(Resident) >= max_size

\* the body of ResponseCache.set for key k, lines 107-116, with _evict_lru,
\* lines 123-133
set_under_lock(k, r) ==
    \E v \in (IF cache_full THEN lru_key ELSE {"-"}) :
       /\ cache' = [j \in DOMAIN cache |->
                      IF j = k THEN [response |-> r, timestamp |-> now, access_count |-> 1]
                      ELSE IF j = v THEN NoEntry ELSE cache[j]]
       /\ stats' = [stats EXCEPT !.evictions = IF v = "-" THEN @ ELSE @ + 1]
       /\ asked' = Ask("set", k, "-", v)

\* ResponseCache.get called on its own
CacheGet(k) ==
    /\ asked.n < MaxAsks
    /\ get_under_lock(k)
    /\ UNCHANGED <<sessions, messages, ptr, mcache, dedup, gate, redisUp, enabled, client,
                   now, shutting_down, pc, loc, failures, alerts, call, ex>>

\* ResponseCache.set called on its own
CacheSet(k, r) ==
    /\ asked.n < MaxAsks
    /\ set_under_lock(k, r)
    /\ UNCHANGED <<sessions, messages, ptr, mcache, dedup, gate, redisUp, enabled, client,
                   now, shutting_down, pc, loc, failures, alerts, call, ex>>

\* ResponseCache.clear_expired, lines 140-148
ClearExpired ==
    /\ asked.n < MaxAsks
    /\ cache' = [k \in DOMAIN cache |->
                   IF cache[k] # NoEntry /\ cache_expired(cache[k], now)
                   THEN NoEntry ELSE cache[k]]
    /\ asked' = Ask("clear_expired", "-", "-", "-")
    /\ UNCHANGED <<sessions, messages, ptr, mcache, dedup, gate, redisUp, enabled, client,
                   now, shutting_down, pc, loc, stats, failures, alerts, call, ex>>

\* ResponseCache.clear_all, lines 167-171
ClearAll ==
    /\ asked.n < MaxAsks
    /\ cache' = [k \in DOMAIN cache |-> NoEntry]
    /\ stats' = [hits |-> 0, misses |-> 0, evictions |-> 0]
    /\ asked' = Ask("clear_all", "-", "-", "-")
    /\ UNCHANGED <<sessions, messages, ptr, mcache, dedup, gate, redisUp, enabled, client,
                   now, shutting_down, pc, loc, failures, alerts, call, ex>>

\* ---- RedisClient, attempt by attempt                 redis_utils.py:41
\* The five methods called on one key, session:active:A, one call at a time.
\* Results are named as Python prints them; "value" is a stored string.
ClientOps == {"set_if_not_exists", "exists", "set", "get", "delete"}

KeyHeld == ptr["A"].sid # 0

\* what redis-py returns when the server answers
served_result(op) ==
    CASE op = "set_if_not_exists" -> IF KeyHeld THEN "None" ELSE "True"
      [] op = "exists"            -> IF KeyHeld THEN "1" ELSE "0"
      [] op = "set"               -> "True"
      [] op = "get"               -> IF KeyHeld THEN "value" ELSE "None"
      [] op = "delete"            -> IF KeyHeld THEN "1" ELSE "0"

\* the server's key after the command
served_effect(op) ==
    CASE op = "set_if_not_exists" -> IF KeyHeld THEN ptr ELSE PtrAfterSet("A", 1)
      [] op = "set"               -> PtrAfterSet("A", 1)
      [] op = "delete"            -> PtrAfterDelete("A")
      [] OTHER                    -> ptr

\* the fallbacks as they would be if every method passed the one of set
fallback_always_true(op) == "True"

\* the nested fallback() of each method, lines 91, 105, 117, 129, 141
fallback(op) ==
    CASE op \in {"set_if_not_exists", "set", "delete"} -> "True"
      [] op = "exists"                                 -> "False"
      [] op = "get"                                    -> "None"

\* the early return of each method when not self.enabled
disabled_return(op) ==
    CASE op \in {"set_if_not_exists", "set", "delete"} -> "True"
      [] op = "exists"                                 -> "False"
      [] op = "get"                                    -> "None"

\* the test under which each method zeroes consecutive_failures, lines 98,
\* 110, 122, 134, 146
resets(op, result) ==
    CASE op = "set_if_not_exists" -> result = "True"
      [] op = "exists"            -> result \in {"1", "True"}
      [] OTHER                    -> result # "None"

\* the return statement of each method, lines 100, 112, 124, 136, 148
return_of(op, result) ==
    CASE op = "set_if_not_exists" -> IF result = "True" THEN "True" ELSE "False"
      [] op = "exists"            -> IF result \in {"1", "True"} THEN "True" ELSE "False"
      [] op \in {"set", "delete"} -> "True"
      [] op = "get"               -> result

\* the loop as it would be with one attempt more
attempts_one_more == 1..(REDIS_MAX_RETRIES + 1)

\* line 49: range(1, REDIS_MAX_RETRIES + 1)
attempts == 1..REDIS_MAX_RETRIES

\* A method is called. Disabled, it returns its default; with self.client
\* None the argument self.client.<op> of _retry raises AttributeError (the
\* test of line 53 and the lazy initialize of line 57 are never reached);
\* otherwise _retry enters its loop.
RetryCall(op) ==
    /\ call.at \in {"idle", "done"}
    /\ call.n < MaxCalls
    /\ call' = [call EXCEPT !.op = op, !.n = @ + 1, !.tried = 0, !.failed = 0,
                            !.ok = FALSE, !.fellback = FALSE, !.base = failures,
                            !.attempt = IF enabled /\ client # "none" THEN 1 ELSE 0,
                            !.at = IF enabled /\ client # "none" THEN "try" ELSE "done",
                            !.ret = IF ~enabled THEN disabled_return(op)
                                    ELSE IF client = "none" THEN "raised" ELSE "-"]
    /\ UNCHANGED <<sessions, messages, ptr, mcache, dedup, gate, redisUp, enabled, client,
                   now, shutting_down, pc, loc, cache, stats, asked, failures, alerts, ex>>

\* One pass of the loop, lines 49-66. Answered, the method applies its reset
\* test and returns without suspending. Failed, the counter goes up, the
\* critical line is written at the threshold, and the coroutine sleeps.
Attempt ==
    /\ call.at = "try"
    /\ IF redisUp
       THEN LET result == served_result(call.op) IN
            /\ ptr' = served_effect(call.op)
            /\ failures' = IF resets(call.op, result) THEN 0 ELSE failures
            /\ call' = [call EXCEPT !.at = "done", !.ret = return_of(call.op, result),
                                    !.tried = @ + 1, !.ok = TRUE,
                                    !.run = 0, !.warned = FALSE]
            /\ UNCHANGED alerts
       ELSE LET alert == failures + 1 >= REDIS_ALERT_THRESHOLD IN
            /\ failures' = failures + 1
            /\ alerts' = IF alert THEN alerts + 1 ELSE alerts
            /\ call' = [call EXCEPT !.tried = @ + 1, !.failed = @ + 1, !.ok = FALSE,
                                    !.run = @ + 1, !.warned = @ \/ alert,
                                    !.attempt = IF @ + 1 \in attempts THEN @ + 1 ELSE @,
                                    !.at = IF call.attempt + 1 \in attempts
                                           THEN "try" ELSE "fallback"]
            /\ UNCHANGED ptr
    /\ UNCHANGED <<sessions, messages, mcache, dedup, gate, redisUp, enabled, client,
                   now, shutting_down, pc, loc, cache, stats, asked, ex>>

\* Past the loop, lines 67-83: the fallback's value is the result, on which the
\* method applies its reset test and returns.
Fallback ==
    /\ call.at = "fallback"
    /\ failures' = IF resets(call.op, fallback(call.op)) THEN 0 ELSE failures
    /\ call' = [call EXCEPT !.at = "done", !.fellback = TRUE,
                            !.ret = return_of(call.op, fallback(call.op))]
    /\ UNCHANGED <<sessions, messages, ptr, mcache, dedup, gate, redisUp, enabled, client,
                   now, shutting_down, pc, loc, cache, stats, asked, alerts, ex>>

\* ---- process_conversational_message(message)        discord_bot.py:192
\* One message at a time. The session calls it awaits run in the coroutines
\* of Procs: get_or_create_session in 1, the two add_message in 2 and 3.
Texts == {"hi", "Hi "}

\* IntentDetectionService.INTENTS, intent_service.py:27-35; "unclear" is also
\* what detect_intent returns when classification fails
Intents == {"generate_image", "submit_feature", "get_status", "get_help",
            "general_conversation", "unclear", "action_query"}

None == "None"

\* user_message.lower().strip(), for the texts tried
normalized(m) == IF m = "Hi " THEN "hi" ELSE m

\* _generate_key, cache_service.py:55-64; md5 is taken to be injective
generate_key(m, intent) ==
    IF intent # None THEN intent \o ":" \o normalized(m) ELSE normalized(m)

ExchangeKeys == {generate_key(m, i) : m \in Texts, i \in Intents \cup {None}}

\* cache_service.py:203-208
non_cacheable == {"generate_image", "submit_feature", "action_query", "unknown"}

\* cache_service.py:210
is_cacheable_intent(intent) == intent \notin non_cacheable

\* performance_utils.py:232-237; every text tried is shorter than 50
should_use_quick_response(intent) == intent \in {"get_help", "get_status"}

\* performance_utils.py:200-217: the template of the intent
get_quick_response_template(intent) ==
    IF intent = "get_help" THEN "help_template" ELSE "status_template"

\* line 202: response_cache.get(message_text), no intent given
lookup_key(m) == generate_key(m, None)

ExDone(how) == [ex EXCEPT !.at = "done", !.ret = how]

\* lines 194-199: a message arrives when none is being handled; the frames of
\* the calls of the message before are gone
ExStart(u, m) ==
    /\ ex.at \in {"idle", "done"}
    /\ \A p \in Procs : ~InFlight(p)
    /\ ex.n < MaxExchanges
    /\ ex' = [ExIdle EXCEPT !.at = "cache_check", !.user = u, !.text = m, !.n = ex.n + 1]
    /\ pc' = [p \in Procs |-> "idle"]
    /\ loc' = [p \in Procs |-> Idle]
    /\ UNCHANGED <<sessions, messages, ptr, mcache, dedup, gate, redisUp, enabled, client,
                   now, shutting_down, cache, stats, asked, failures, alerts, call>>

\* lines 201-205: a cached response is returned at once
ExCacheCheck ==
    /\ ex.at = "cache_check"
    /\ get_under_lock(lookup_key(ex.text))
    /\ ex' = IF asked'.ret # "-" THEN ExDone(asked'.ret) ELSE [ex EXCEPT !.at = "resolve"]
    /\ UNCHANGED <<sessions, messages, ptr, mcache, dedup, gate, redisUp, enabled, client,
                   now, shutting_down, pc, loc, failures, alerts, call>>

\* line 212: get_or_create_session(user_id) is started
ExResolve ==
    /\ ex.at = "resolve"
    /\ pc[1] = "idle"
    /\ CallGetOrCreate(1, ex.user)

\* lines 215-224: gather returns the session and the intent, or raises what
\* get_or_create_session raised (detect_intent answers "unclear" where it fails)
ExJoinSession ==
    /\ ex.at = "resolve"
    /\ pc[1] = "done"
    /\ IF loc[1].ret = "raised" THEN ex' = ExDone("raised")
       ELSE IF loc[1].val = 0 THEN ex' = ExDone("session_error")
       ELSE \E i \in Intents :
              ex' = [ex EXCEPT !.intent = i, !.sid = loc[1].val,
                               !.at = IF should_use_quick_response(i)
                                      THEN "quick_cache" ELSE "reply"]
    /\ UNCHANGED <<sessions, messages, ptr, mcache, dedup, gate, redisUp, enabled, client,
                   now, shutting_down, pc, loc, cache, stats, asked, failures, alerts, call>>

\* lines 225-237: the template is cached, then the intent is logged
ExQuickCache ==
    /\ ex.at = "quick_cache"
    /\ set_under_lock(generate_key(ex.text, ex.intent), get_quick_response_template(ex.intent))
    /\ ex' = [ex EXCEPT !.at = "quick_store", !.cached = TRUE,
                        !.reply = get_quick_response_template(ex.intent)]
    /\ UNCHANGED <<sessions, messages, ptr, mcache, dedup, gate, redisUp, enabled, client,
                   now, shutting_down, pc, loc, failures, alerts, call>>

\* lines 239-240: the two add_message calls, one after the other
ExQuickStore ==
    /\ ex.at = "quick_store"
    /\ \/ pc[2] = "idle" /\ CallAddMessage(2, ex.sid, "user")
       \/ /\ pc[2] = "done" /\ loc[2].ret = "returned" /\ pc[3] = "idle"
          /\ CallAddMessage(3, ex.sid, "assistant")

\* lines 240-242: the template is returned; an exception of add_message leaves
\* the call
ExQuickJoin ==
    /\ ex.at = "quick_store"
    /\ \/ pc[2] = "done" /\ loc[2].ret = "raised" /\ ex' = ExDone("raised")
       \/ pc[3] = "done" /\ ex' = ExDone(IF loc[3].ret = "raised" THEN "raised" ELSE ex.reply)
    /\ UNCHANGED <<sessions, messages, ptr, mcache, dedup, gate, redisUp, enabled, client,
                   now, shutting_down, pc, loc, cache, stats, asked, failures, alerts, call>>

\* lines 244-270: intent log, context, intent action and completion give the
\* reply text
ExReply ==
    /\ ex.at = "reply"
    /\ \E r \in Replies : ex' = [ex EXCEPT !.at = "store", !.reply = r]
    /\ UNCHANGED <<sessions, messages, ptr, mcache, dedup, gate, redisUp, enabled, client,
                   now, shutting_down, pc, loc, cache, stats, asked, failures, alerts, call>>

\* the same lines when one of those calls raises (lines 284-285 re-raise)
ExReplyRaises ==
    /\ ex.at = "reply"
    /\ ex' = ExDone("raised")
    /\ UNCHANGED <<sessions, messages, ptr, mcache, dedup, gate, redisUp, enabled, client,
                   now, shutting_down, pc, loc, cache, stats, asked, failures, alerts, call>>

\* lines 272-276: both add_message coroutines are handed to gather
ExStore ==
    /\ ex.at = "store"
    /\ pc[2] = "idle"
    /\ GatherAddMessages(2, 3, ex.sid)

\* lines 276-282: gather raises as soon as one add_message has raised;
\* otherwise, both done, the reply is cached if the intent allows and returned
ExJoinStore ==
    /\ ex.at = "store"
    /\ IF \E p \in {2, 3} : pc[p] = "done" /\ loc[p].ret = "raised"
       THEN ex' = ExDone("raised") /\ UNCHANGED <<cache, stats, asked>>
       ELSE /\ pc[2] = "done" /\ pc[3] = "done"
            /\ IF is_cacheable_intent(ex.intent)
               THEN /\ set_under_lock(generate_key(ex.text, ex.intent), ex.reply)
                    /\ ex' = [ExDone(ex.reply) EXCEPT !.cached = TRUE]
               ELSE ex' = ExDone(ex.reply) /\ UNCHANGED <<cache, stats, asked>>
    /\ UNCHANGED <<sessions, messages, ptr, mcache, dedup, gate, redisUp, enabled, client,
                   now, shutting_down, pc, loc, failures, alerts, call>>

\* ---- durable-store statements that raise
DbFailed == [ex EXCEPT !.dbfail = TRUE, !.rows = IF ex.dbfail THEN @ ELSE Len(messages)]

\* get_or_create_session: the lookups of lines 100 and 108 and the end of
\* line 121 raise to the caller (lines 109-111, 124-126); a failed create is
\* tried again and raised on the last attempt (lines 145-148); a failed query
\* in should_create_new_session makes it answer True (lines 359-362)
GetOrCreate_db_error(p) ==
    /\ pc[p] \in {"g_confirm", "g_db", "g_expiry", "g_end", "g_create"}
    /\ IF pc[p] = "g_expiry" THEN Goto(p, "g_end", loc[p])
       ELSE IF pc[p] = "g_create" /\ more_attempts(loc[p].attempt)
       THEN Goto(p, "g_create", [loc[p] EXCEPT !.attempt = @ + 1])
       ELSE Raise(p)
    /\ ex' = DbFailed
    /\ UNCHANGED <<sessions, messages, ptr, mcache, dedup, gate, redisUp, enabled, client,
                   now, shutting_down, cache, stats, asked, failures, alerts, call>>

\* add_message: every failing statement is logged and the call returns
\* (lines 184-186, 213-215, 245-247)
AddMessage_db_error(p) ==
    /\ loc[p].op = "add"
    /\ pc[p] \in {"a_check", "a_recheck", "a_create", "a_activity_read", "a_activity_commit"}
    /\ Return(p, 0)
    /\ ex' = DbFailed
    /\ UNCHANGED <<sessions, messages, ptr, mcache, dedup, gate, redisUp, enabled, client,
                   now, shutting_down, cache, stats, asked, failures, alerts, call>>

\* ---------------------------------------------------------------- SpecDedup
\* Three deliveries to on_message over an empty session layer.
SessionsIdle ==
    /\ sessions = <<>> /\ messages = <<>>
    /\ ptr = [u \in Users |-> NoPtr]
    /\ mcache = [s \in SessionIds |-> NoCache]
    /\ pc = [p \in Procs |-> "idle"]
    /\ loc = [p \in Procs |-> Idle]
    /\ shutting_down = FALSE

\* the bot starts with a fresh RedisClient (enabled iff the redis package
\* imports) and an empty dedup namespace
InitDedup ==
    /\ SessionsIdle
    /\ GateIdle
    /\ MoreIdle
    /\ dedup = [m \in Msgs |-> NoClaim]
    /\ enabled \in BOOLEAN
    /\ client = "none"
    /\ redisUp = TRUE
    /\ now = 0

NextDedup ==
    \/ \E h \in Handlers : \E m \in Deliverable(h) : Deliver(h, m)
    \/ \E h \in Handlers : Acquire(h) \/ Process(h) \/ Send(h) \/ Release(h)
    \/ Initialize
    \/ Tick
    \/ RedisFlip

SpecDedup == InitDedup /\ [][NextDedup]_vars

\* ---------------------------------------------------------------- SpecSession
\* The durable store at start is empty, or holds what one
\* get_or_create_session("A") at tick 0 leaves: session 1 and its pointer.
FreshSession(u) == [user_id |-> u, status |-> "active", message_count |-> 0,
                    last_active |-> 0]

InitSession ==
    /\ \E seeded \in BOOLEAN :
          /\ sessions = IF seeded THEN <<FreshSession("A")>> ELSE <<>>
          /\ ptr = [u \in Users |->
                      IF seeded /\ u = "A"
                      THEN [sid |-> 1, exp |-> session_timeout_minutes] ELSE NoPtr]
          /\ enabled = TRUE
          /\ client = IF seeded THEN "connected" ELSE "none"
    /\ messages = <<>>
    /\ mcache = [s \in SessionIds |-> NoCache]
    /\ dedup = [m \in Msgs |-> NoClaim]
    /\ GateIdle
    /\ MoreIdle
    /\ redisUp = TRUE
    /\ now = 0
    /\ shutting_down = FALSE
    /\ pc = [p \in Procs |-> "idle"]
    /\ loc = [p \in Procs |-> Idle]

SessionStep(p) ==
    \/ GetOrCreate_redis_get(p) \/ GetOrCreate_confirm(p) \/ GetOrCreate_unpoint(p)
    \/ GetOrCreate_db(p) \/ GetOrCreate_expiry(p) \/ GetOrCreate_adopt(p)
    \/ GetOrCreate_end(p) \/ GetOrCreate_unpoint2(p) \/ GetOrCreate_create(p)
    \/ GetOrCreate_point_new(p)
    \/ AddMessage_redis_get(p) \/ AddMessage_check(p) \/ AddMessage_unpoint(p)
    \/ AddMessage_recheck(p) \/ AddMessage_create(p) \/ AddMessage_cache_get(p)
    \/ AddMessage_cache_set(p) \/ UpdateActivity_read(p)
    \/ UpdateActivity_commit(p) \/ AddMessage_point(p)
    \/ EndSession_end(p) \/ EndSession_unpoint(p)
    \/ Prune_select(p) \/ Prune_loop(p)

\* two coroutines, any two calls of the SessionManager
SessionProcs == {1, 2}

NextSession ==
    \/ \E p \in SessionProcs, u \in Users : CallGetOrCreate(p, u)
    \/ \E p \in SessionProcs, s \in SessionIds, r \in Roles : CallAddMessage(p, s, r)
    \/ \E p, q \in SessionProcs, s \in SessionIds : GatherAddMessages(p, q, s)
    \/ \E p \in SessionProcs, s \in SessionIds, u \in Users \cup {NoUser} :
          CallEndSession(p, s, u)
    \/ \E p \in SessionProcs : CallPrune(p)
    \/ \E p \in SessionProcs : SessionStep(p)
    \/ Initialize \/ Tick \/ RedisFlip

SpecSession == InitSession /\ [][NextSession]_vars

\* ---------------------------------------------------------------- SpecActivity
\* Session 1 exists; the first coroutine runs add_message on it, every
\* coroutine may run update_session_activity on it.
InitActivity ==
    /\ sessions = <<FreshSession("A")>>
    /\ ptr = [u \in Users |->
                IF u = "A" THEN [sid |-> 1, exp |-> session_timeout_minutes] ELSE NoPtr]
    /\ enabled = TRUE
    /\ client = "connected"
    /\ messages = <<>>
    /\ mcache = [s \in SessionIds |-> NoCache]
    /\ dedup = [m \in Msgs |-> NoClaim]
    /\ GateIdle
    /\ MoreIdle
    /\ redisUp = TRUE
    /\ now = 0
    /\ shutting_down = FALSE
    /\ pc = [p \in Procs |-> "idle"]
    /\ loc = [p \in Procs |-> Idle]

ActivityStep(p) ==
    \/ AddMessage_redis_get(p) \/ AddMessage_check(p)
    \/ AddMessage_recheck(p) \/ AddMessage_create(p) \/ AddMessage_cache_get(p)
    \/ AddMessage_cache_set(p) \/ UpdateActivity_read(p)
    \/ UpdateActivity_commit(p) \/ AddMessage_point(p)

NextActivity ==
    \/ \E s \in SessionIds, r \in AnyRole : CallAddMessage(1, s, r)
    \/ \E p \in Procs, s \in SessionIds : CallUpdateActivity(p, s)
    \/ \E p \in Procs : ActivityStep(p)
    \/ Tick \/ RedisFlip

SpecActivity == InitActivity /\ [][NextActivity]_vars

\* ---------------------------------------------------------------- SpecLoss
\* Session 1 of user A exists with its pointer; the fast store may lose its
\* state at any time; one get_or_create_session call runs.
NextLoss ==
    \/ \E u \in Users : CallGetOrCreate(1, u)
    \/ GetOrCreate_redis_get(1) \/ GetOrCreate_confirm(1)
    \/ GetOrCreate_db(1) \/ GetOrCreate_expiry(1) \/ GetOrCreate_adopt(1)
    \/ GetOrCreate_end(1) \/ GetOrCreate_unpoint2(1) \/ GetOrCreate_create(1)
    \/ GetOrCreate_point_new(1)
    \/ RedisFlush \/ Tick \/ RedisFlip

SpecLoss == InitActivity /\ [][NextLoss]_vars

\* ---------------------------------------------------------------- SpecExpiry
\* The clock counts seconds. User A has one session, last active within the
\* first MaxSkew seconds; the clock stands within a few seconds of the timeout.
InitExpiry ==
    /\ sessions \in {<<[user_id |-> "A", status |-> st, message_count |-> 0,
                        last_active |-> la]>> :
                       st \in {"active", "ended"}, la \in 0..MaxSkew}
    /\ now \in (timeout_delta - MaxSkew)..(timeout_delta + 2 * MaxSkew)
    /\ messages = <<>>
    /\ ptr = [u \in Users |-> NoPtr]
    /\ mcache = [s \in SessionIds |-> NoCache]
    /\ dedup = [m \in Msgs |-> NoClaim]
    /\ GateIdle
    /\ MoreIdle
    /\ enabled = TRUE /\ client = "connected" /\ redisUp = TRUE
    /\ shutting_down = FALSE
    /\ pc = [p \in Procs |-> "idle"]
    /\ loc = [p \in Procs |-> Idle]

NextExpiry ==
    \/ \E u \in Users : CallShouldCreate(1, u)
    \/ ShouldCreate_query(1)

SpecExpiry == InitExpiry /\ [][NextExpiry]_vars

\* ---------------------------------------------------------------- SpecCache
\* An empty ResponseCache; get, set, clear_expired and clear_all in any order
\* while the clock advances.
InitCache ==
    /\ SessionsIdle
    /\ GateIdle
    /\ MoreIdle
    /\ dedup = [m \in Msgs |-> NoClaim]
    /\ enabled = TRUE /\ client = "none" /\ redisUp = TRUE
    /\ now = 0

NextCache ==
    \/ \E k \in CacheKeys : CacheGet(k)
    \/ \E k \in CacheKeys, r \in Replies : CacheSet(k, r)
    \/ ClearExpired
    \/ ClearAll
    \/ Tick

SpecCache == InitCache /\ [][NextCache]_vars

\* ---------------------------------------------------------------- SpecRetry
\* A client that is disabled, was never initialised, or is connected; calls
\* of its methods one after the other while the server comes and goes.
InitRetry ==
    /\ SessionsIdle
    /\ GateIdle
    /\ MoreIdle
    /\ dedup = [m \in Msgs |-> NoClaim]
    /\ enabled \in BOOLEAN
    /\ client \in (IF enabled THEN {"none", "connected"} ELSE {"none"})
    /\ redisUp \in BOOLEAN
    /\ now = 0

NextRetry ==
    \/ \E op \in ClientOps : RetryCall(op)
    \/ Attempt
    \/ Fallback
    \/ RedisFlip

SpecRetry == InitRetry /\ [][NextRetry]_vars

\* the event loop resumes a coroutine whose sleep has ended, and an attempt
\* on the server is answered or raises
SpecRetryFair == SpecRetry /\ WF_vars(Attempt) /\ WF_vars(Fallback)

\* ---------------------------------------------------------------- SpecContext
\* Two sessions whose histories grow; one get_conversation_context call.
InitContext ==
    /\ sessions = <<FreshSession("A"), FreshSession("B")>>
    /\ messages = <<>>
    /\ ptr = [u \in Users |-> NoPtr]
    /\ mcache = [s \in SessionIds |-> NoCache]
    /\ pc = [p \in Procs |-> "idle"]
    /\ loc = [p \in Procs |-> Idle]
    /\ shutting_down = FALSE
    /\ GateIdle
    /\ MoreIdle
    /\ dedup = [m \in Msgs |-> NoClaim]
    /\ enabled = TRUE /\ client = "connected" /\ redisUp = TRUE
    /\ now = 0

NextContext ==
    \/ \E s \in SessionIds, r \in Roles : StoreMessage(s, r)
    \/ \E s \in SessionIds, n \in ContextLimits : CallContext(1, s, n)
    \/ Context_query(1)
    \/ Context_db_error(1)

SpecContext == InitContext /\ [][NextContext]_vars

\* ---------------------------------------------------------------- SpecExchange
\* An empty durable store, a connected fast store, an empty response cache;
\* messages of user A are handled one after the other, and any durable-store
\* statement may fail. No session ends and no pointer is lost here, so the
\* branches of the session calls for those cases are left out.
InitExchange ==
    /\ SessionsIdle
    /\ GateIdle
    /\ dedup = [m \in Msgs |-> NoClaim]
    /\ enabled = TRUE /\ client = "connected" /\ redisUp = TRUE
    /\ now = 0
    /\ cache = [k \in ExchangeKeys |-> NoEntry]
    /\ stats = [hits |-> 0, misses |-> 0, evictions |-> 0]
    /\ asked = NoAsk
    /\ failures = 0 /\ alerts = 0 /\ call = NoCall
    /\ ex = ExIdle

ExchangeCalls(p) ==
    \/ GetOrCreate_redis_get(p) \/ GetOrCreate_db(p) \/ GetOrCreate_create(p)
    \/ GetOrCreate_point_new(p) \/ GetOrCreate_confirm(p)
    \/ AddMessage_redis_get(p) \/ AddMessage_check(p)
    \/ AddMessage_recheck(p) \/ AddMessage_create(p) \/ AddMessage_cache_get(p)
    \/ AddMessage_cache_set(p) \/ UpdateActivity_read(p) \/ UpdateActivity_commit(p)
    \/ AddMessage_point(p)
    \/ GetOrCreate_db_error(p) \/ AddMessage_db_error(p)

NextExchange ==
    \/ \E m \in Texts : ExStart("A", m)
    \/ ExCacheCheck \/ ExResolve \/ ExJoinSession
    \/ ExQuickCache \/ ExQuickStore \/ ExQuickJoin
    \/ ExReply \/ ExReplyRaises \/ ExStore \/ ExJoinStore
    \/ \E p \in Procs : ExchangeCalls(p)

SpecExchange == InitExchange /\ [][NextExchange]_vars

\* -------------------------------------------------------------- SpecAttempts
\* Two get_or_create_session calls over an empty durable store whose
\* statements may fail; every call in flight keeps being scheduled.
InitAttempts ==
    /\ SessionsIdle
    /\ GateIdle
    /\ MoreIdle
    /\ dedup = [m \in Msgs |-> NoClaim]
    /\ enabled = TRUE /\ client = "connected" /\ redisUp = TRUE
    /\ now = 0

AttemptStep(p) ==
    \/ GetOrCreate_redis_get(p) \/ GetOrCreate_confirm(p) \/ GetOrCreate_db(p)
    \/ GetOrCreate_expiry(p) \/ GetOrCreate_adopt(p) \/ GetOrCreate_end(p)
    \/ GetOrCreate_unpoint2(p) \/ GetOrCreate_create(p) \/ GetOrCreate_point_new(p)
    \/ GetOrCreate_db_error(p)

NextAttempts ==
    \/ \E p \in SessionProcs, u \in Users : CallGetOrCreate(p, u)
    \/ \E p \in SessionProcs : AttemptStep(p)
    \/ Tick \/ RedisFlip

SpecAttempts == InitAttempts /\ [][NextAttempts]_vars

SpecAttemptsFair == SpecAttempts /\ \A p \in SessionProcs : WF_vars(AttemptStep(p))

\* -------------------------------------------------------------- SpecRedirect
\* Two get_or_create_session("A") calls in coroutines 1 and 2, and one
\* add_message for a session of A in coroutine 3, over an empty store.
InitRedirect == InitAttempts

RedirectStep(p) ==
    \/ GetOrCreate_redis_get(p) \/ GetOrCreate_confirm(p) \/ GetOrCreate_db(p)
    \/ GetOrCreate_expiry(p) \/ GetOrCreate_adopt(p) \/ GetOrCreate_end(p)
    \/ GetOrCreate_unpoint2(p) \/ GetOrCreate_create(p) \/ GetOrCreate_point_new(p)
    \/ AddMessage_redis_get(p) \/ AddMessage_check(p) \/ AddMessage_unpoint(p)
    \/ AddMessage_recheck(p) \/ AddMessage_create(p) \/ AddMessage_cache_get(p)
    \/ AddMessage_cache_set(p) \/ UpdateActivity_read(p)
    \/ UpdateActivity_commit(p) \/ AddMessage_point(p)

NextRedirect ==
    \/ \E p \in SessionProcs : CallGetOrCreate(p, "A")
    \/ \E p \in Procs \ SessionProcs, s \in SessionIds, r \in Roles :
          CallAddMessage(p, s, r)
    \/ \E p \in Procs : RedirectStep(p)
    \/ Tick

SpecRedirect == InitRedirect /\ [][NextRedirect]_vars

\* ---------------------------------------------------------------- SpecCreate
\* An empty durable store; create_conversation_session calls overlap.
InitCreate ==
    /\ SessionsIdle
    /\ GateIdle
    /\ MoreIdle
    /\ dedup = [m \in Msgs |-> NoClaim]
    /\ enabled = TRUE /\ client = "connected" /\ redisUp = TRUE
    /\ now = 0

NextCreate ==
    \/ \E p \in Procs, u \in Users : CallCreateSession(p, u)
    \/ \E p \in Procs : CreateSession_commit(p)
    \/ Tick

SpecCreate == InitCreate /\ [][NextCreate]_vars

\* ---------------------------------------------------------------- SpecRecover
\* The bot restarts over stores left by an earlier run: up to two sessions,
\* with or without a first message, each user's pointer absent or naming one
\* of that user's sessions; recover_redis_state runs once, within one tick.
RecoverRows == [user_id : Users, status : {"active", "ended"},
                message_count : {0, 1}, last_active : {0}]

InitRecover ==
    /\ messages \in {<<>>, <<[session_id |-> 1, role |-> "user"]>>}
    /\ sessions \in {t \in [{1} -> RecoverRows] \cup [{1, 2} -> RecoverRows] :
                       \A s \in DOMAIN t : t[s].message_count = Len(HistoryOf(s))}
    /\ ptr \in {f \in [Users -> {NoPtr} \cup
                                [sid : DOMAIN sessions, exp : {session_timeout_minutes}]] :
                  \A u \in Users : f[u].sid # 0 => sessions[f[u].sid].user_id = u}
    /\ mcache = [s \in SessionIds |-> NoCache]
    /\ dedup = [m \in Msgs |-> NoClaim]
    /\ GateIdle
    /\ MoreIdle
    /\ enabled \in BOOLEAN
    /\ client \in {"none", "connected"}
    /\ ~enabled => client = "none"
    /\ redisUp = TRUE
    /\ now = 0
    /\ shutting_down = FALSE
    /\ pc = [p \in Procs |-> "idle"]
    /\ loc = [p \in Procs |-> Idle]

NextRecover ==
    \/ CallRecover(1)
    \/ Recover_list(1) \/ Recover_point(1) \/ Recover_history(1) \/ Recover_cache(1)
    \/ Initialize
    \/ RedisFlip

SpecRecover == InitRecover /\ [][NextRecover]_vars

\* ================================================================ properties

\* ---------------------------------------------------------------- C1
\* C1: in every reachable state each user has at most one session whose
\* durable status is active.
C1_OneActiveSessionPerUser ==
    \A u \in Users : Cardinality(ActiveOf(u)) <= 1

\* ---------------------------------------------------------------- C2
\* C2: get_or_create_session calls for the same user that ran concurrently and
\* each returned a session returned the same identifier (no session of the
\* user having been ended meanwhile).
C2_CallersConverge ==
    \A p, q \in Procs :
        ( /\ loc[p].op = "goc" /\ loc[q].op = "goc" /\ q \in loc[p].peers
          /\ pc[p] = "done" /\ pc[q] = "done"
          /\ loc[p].ret = "returned" /\ loc[q].ret = "returned"
          /\ loc[p].val # 0 /\ loc[q].val # 0
          /\ \A s \in DOMAIN sessions :
                sessions[s].user_id = loc[p].user => sessions[s].status = "active" )
        => loc[p].val = loc[q].val

\* ---------------------------------------------------------------- C6
\* C6: when the two add_message calls the handler gathers for one exchange on a
\* new session have both returned, and the session holds exactly one user and
\* one assistant message, its message_count is 2.
C6_ExchangeCountsTwo ==
    \A p, q \in Procs :
        ( /\ loc[p].op = "add" /\ loc[q].op = "add"
          /\ loc[p].role = "user" /\ loc[q].role = "assistant"
          /\ loc[p].peers = {q} /\ loc[q].peers = {p}
          /\ pc[p] = "done" /\ pc[q] = "done"
          /\ loc[p].ret = "returned" /\ loc[q].ret = "returned"
          /\ HistoryOf(loc[p].sid) \in {<<"user", "assistant">>, <<"assistant", "user">>} )
        => sessions[loc[p].sid].message_count = 2

\* ---------------------------------------------------------------- C7
\* C7: no step lowers the durable message_count of a session.
C7_CountNeverDecreases ==
    [][\A s \in DOMAIN sessions :
          sessions'[s].message_count >= sessions[s].message_count]_vars

\* ---------------------------------------------------------------- C8
\* C8: for a session whose durable status is already ended, no step creates a
\* message or changes message_count or last_active.
C8_EndedSessionUntouched ==
    [][\A s \in DOMAIN sessions :
          sessions[s].status = "ended" =>
              /\ sessions'[s].message_count = sessions[s].message_count
              /\ sessions'[s].last_active = sessions[s].last_active
              /\ HistoryOf(s)' = HistoryOf(s)]_vars

\* ---------------------------------------------------------------- C9
\* C9: once add_message has found that the pointer of its user does not name
\* its session (redis_valid is False), none of its steps creates a message row
\* or changes a session row.
C9_StalePointerSkipsWrite ==
    [][\A p \in Procs :
          (loc[p].op = "add" /\ ~loc[p].valid /\ pc'[p] # pc[p]) =>
              (messages' = messages /\ sessions' = sessions)]_vars

GrantedByStore(m) ==
    \A h \in Handlers : (hloc[h].msg = m /\ hloc[h].res = "true") => hloc[h].how = "served"

C4_FirstAcquireWins ==
    \A h \in Handlers :
        hloc[h].res # "none" => (hloc[h].res = IF hloc[h].first THEN "true" ELSE "false")

\* C4 amended: the same, for acquires the fast store serves in an epoch whose
\* earlier acquires, and whose opening release, it served as well.
C4_FirstServedAcquireWins ==
    \A h \in Handlers :
        hloc[h].clean => (hloc[h].res = IF hloc[h].first THEN "true" ELSE "false")

\* an acquire was refused while the claim was held, and after the release the
\* next acquire of the same id was granted
C4_Witness ==
    \E h, g, k \in Handlers :
        /\ h # g /\ g # k /\ h # k
        /\ hloc[h].msg = hloc[g].msg /\ hloc[g].msg = hloc[k].msg
        /\ hloc[h].clean /\ hloc[g].clean /\ hloc[k].clean
        /\ hloc[h].res = "true" /\ hpc[h] = "done"
        /\ hloc[g].res = "false" /\ ~hloc[g].first
        /\ hloc[k].res = "true" /\ hloc[k].first

\* ---------------------------------------------------------------- C5
\* C5 as stated: a delivery whose acquire runs while the claim of its id is
\* held by a handler still at work gets false and returns at once: it sends
\* nothing and never enters process_conversational_message.
C5_SecondDeliveryDropped ==
    \A h \in Handlers :
        (hloc[h].held /\ hloc[h].res # "none") =>
            /\ hloc[h].res = "false"
            /\ hpc[h] = "done" /\ hloc[h].sends = 0

\* C5 amended: the same, when the fast store serves the second acquire.
C5_SecondServedDeliveryDropped ==
    \A h \in Handlers :
        (hloc[h].held /\ hloc[h].how = "served") =>
            /\ hloc[h].res = "false"
            /\ hpc[h] = "done" /\ hloc[h].sends = 0

\* the second delivery was dropped while the first was still being processed
C5_Witness ==
    \E h, g \in Handlers :
        /\ h # g /\ hloc[h].msg = hloc[g].msg
        /\ hpc[h] = "process" /\ dedup[hloc[h].msg].owner = h
        /\ hloc[g].held /\ hloc[g].how = "served" /\ hpc[g] = "done"

\* ---------------------------------------------------------------- C10
\* C10: once recover_redis_state has completed, with every fast-store call of
\* the pass served, a user has a pointer exactly if the user has an active
\* session, and the pointer names an active session of that user.
C10_PointersAreActiveSessions ==
    (loc[1].op = "recover" /\ pc[1] = "done" /\ loc[1].served /\ ClientMode = "served") =>
        \A u \in Users :
            IF ActiveOf(u) = {} THEN ptr[u] = NoPtr ELSE ptr[u].sid \in ActiveOf(u)

\* ---------------------------------------------------------------- C11
\* C11: a get_or_create_session("A") call that gets no pointer from the fast
\* store (lost, or unreachable) and returns while session 1, A's only session,
\* is not older than the timeout, returns session 1, leaves the durable store as
\* it was, and, when the fast store serves the write, leaves the pointer of A
\* naming session 1 with a fresh expiry.
C11_SessionSurvivesLoss ==
    [][( /\ loc[1].op = "goc" /\ loc[1].user = "A" /\ loc[1].sid = 0
         /\ pc[1] # "done" /\ pc'[1] = "done"
         /\ now - FreshSession("A").last_active <= session_timeout_minutes )
       => /\ loc'[1].ret = "returned" /\ loc'[1].val = 1
          /\ sessions' = <<FreshSession("A")>>
          /\ ClientMode = "served" =>
                 ptr'["A"] = [sid |-> 1, exp |-> now + session_timeout_minutes]]_vars

\* the fast store was flushed, the call went to the durable store and came back
\* with session 1, the pointer repopulated
C11_Witness ==
    /\ loc[1].op = "goc" /\ loc[1].user = "A" /\ loc[1].sid = 0 /\ loc[1].act = 0
    /\ pc[1] = "done" /\ loc[1].val = 1
    /\ now = 1 /\ ptr["A"] = [sid |-> 1, exp |-> 1 + session_timeout_minutes]

\* ---------------------------------------------------------------- C12
\* the seconds since the last activity of A's session when the call returned
Elapsed == now - sessions[1].last_active

AnsweredForActive ==
    /\ loc[1].op = "expiry" /\ loc[1].user = "A" /\ pc[1] = "done"
    /\ sessions[1].status = "active"

\* C12 as stated: should_create_new_session returns true for an active session
\* last active exactly the timeout ago, false one second short of it.
C12_ExpiredAtTimeout ==
    AnsweredForActive =>
        /\ Elapsed = timeout_delta => loc[1].val = 1
        /\ Elapsed = timeout_delta - 1 => loc[1].val = 0

\* C12 amended: it returns false for an active session last active exactly
\* the timeout ago (and one second short of it), true one second past it.
C12_ExpiredPastTimeout ==
    AnsweredForActive =>
        /\ Elapsed = timeout_delta - 1 => loc[1].val = 0
        /\ Elapsed = timeout_delta => loc[1].val = 0
        /\ Elapsed = timeout_delta + 1 => loc[1].val = 1

\* the call answered False for a session exactly the timeout old
C12_Witness ==
    AnsweredForActive /\ Elapsed = timeout_delta /\ loc[1].val = 0

\* ---------------------------------------------------------------- C13
\* C13: a get of a key whose entry, set at time T, is still in the map returns
\* the entry's response at any time before T + ttl and None at any time after
\* T + ttl.
C13_TtlDecidesGet ==
    [][\A k \in CacheKeys :
          ( /\ asked'.n = asked.n + 1 /\ asked'.op = "get" /\ asked'.key = k
            /\ cache[k] # NoEntry )
          => /\ now < cache[k].timestamp + ttl => asked'.ret = cache[k].response
             /\ now > cache[k].timestamp + ttl => asked'.ret = "-"]_vars

\* a get after T + ttl found the entry still in the map and returned None
C13_Witness ==
    /\ asked.op = "get" /\ asked.key = "a" /\ asked.ret = "-" /\ asked.victim = "a"
    /\ now > ttl /\ stats.misses = 1 /\ Resident = {}

\* ---------------------------------------------------------------- C14
\* C14: a set of a key not in the map, made when the map holds max_size
\* entries, raises the evictions counter by one and removes exactly one entry,
\* one whose (access_count, timestamp) pair no other entry undercuts, before
\* it inserts the new one.
C14_SetEvictsTheLeastUsed ==
    [][\A k \in CacheKeys :
          ( /\ asked'.n = asked.n + 1 /\ asked'.op = "set" /\ asked'.key = k
            /\ cache[k] = NoEntry /\ Cardinality(Resident) = max_size )
          => /\ stats'.evictions = stats.evictions + 1
             /\ \E v \in Resident :
                  /\ Resident' = (Resident \ {v}) \cup {k}
                  /\ \A j \in Resident :
                        \/ cache[v].access_count < cache[j].access_count
                        \/ /\ cache[v].access_count = cache[j].access_count
                           /\ cache[v].timestamp <= cache[j].timestamp
                  /\ \A j \in Resident \ {v} : cache'[j] = cache[j]]_vars

\* with a (set first, read once more) and b (set later, never read) in the map,
\* the set of c evicted b and kept a
C14_Witness ==
    /\ asked.op = "set" /\ asked.key = "c" /\ asked.victim = "b"
    /\ Resident = {"a", "c"} /\ cache["a"].access_count = 2 /\ cache["a"].timestamp = 0
    /\ stats.evictions = 1

\* ---------------------------------------------------------------- C15
\* what the caller of the method got when the fast store could not serve it
Unavailable == ~enabled \/ client = "none" \/ call.failed = REDIS_MAX_RETRIES

\* C15: a set_if_not_exists call made while the fast store is unavailable
\* (client disabled, client never initialised, or every attempt failed)
\* returns True and does not raise.
C15_UnavailableStoreGrants ==
    (call.at = "done" /\ call.op = "set_if_not_exists" /\ Unavailable)
        => call.ret = "True"

\* ---------------------------------------------------------------- C16
\* C16: when the client is disabled or every attempt of the call failed, get
\* returns None, set and delete return True, and none of them raises.
C16_DefaultsOnFailure ==
    (call.at = "done" /\ (~enabled \/ call.failed = REDIS_MAX_RETRIES))
        => /\ call.op = "get" => call.ret = "None"
           /\ call.op \in {"set", "delete"} => call.ret = "True"
           /\ call.ret # "raised"

\* a get whose three attempts all failed returned None through the fallback
C16_Witness ==
    /\ call.at = "done" /\ call.op = "get" /\ call.fellback
    /\ call.failed = REDIS_MAX_RETRIES /\ call.ret = "None" /\ enabled

\* ---------------------------------------------------------------- C17
\* C17: a call makes at most REDIS_MAX_RETRIES attempts, makes none after one
\* that the server answered, runs the fallback only after REDIS_MAX_RETRIES
\* failed attempts, and always comes to an end.
C17_BoundedAttempts ==
    /\ [](/\ call.tried <= REDIS_MAX_RETRIES
          /\ call.ok => call.at = "done" /\ call.tried = call.failed + 1
          /\ call.fellback => call.failed = REDIS_MAX_RETRIES /\ ~call.ok
          /\ call.at = "fallback" => call.failed = REDIS_MAX_RETRIES)
    /\ (call.at \in {"try", "fallback"}) ~> (call.at = "done")

\* a call answered at its third attempt, after two failures
C17_Witness ==
    /\ call.at = "done" /\ call.ok /\ call.tried = REDIS_MAX_RETRIES
    /\ call.failed = REDIS_MAX_RETRIES - 1 /\ ~call.fellback

\* ---------------------------------------------------------------- C18
\* C18: every failed attempt raises consecutive_failures by one, and after
\* every attempt the server answered, whatever the answer, the counter is 0.
C18_CounterFollowsAttempts ==
    [][call'.tried = call.tried + 1
         => IF call'.ok THEN failures' = 0 ELSE failures' = failures + 1]_vars

\* ---------------------------------------------------------------- C19
\* C19: once REDIS_ALERT_THRESHOLD or more attempts have failed in a row, with
\* no answered attempt between them, the critical line has been written.
C19_AlertAtThreshold ==
    call.run >= REDIS_ALERT_THRESHOLD => call.warned

MostRecent(rows, n) ==
    IF Len(rows) > n THEN SubSeq(rows, Len(rows) - n + 1, Len(rows)) ELSE rows

\* C21: get_conversation_context(S, n) returns the n most recent rows of S,
\* oldest first, and all rows when S has at most n.
C21_ContextIsMostRecent ==
    [][( /\ loc[1].op = "context" /\ pc[1] = "x_query"
         /\ pc'[1] = "done" /\ loc'[1].ret = "returned" )
       => loc'[1].ctx = MostRecent(RowsOf(loc[1].sid), loc[1].limit)]_vars

\* ---------------------------------------------------------------- C22
\* C22: a get_conversation_context call never ends by raising; when the
\* history lookup fails it returns the empty sequence.
C22_ContextNeverRaises ==
    (pc[1] = "done" /\ loc[1].op = "context")
        => loc[1].ret = "returned"

\* ---------------------------------------------------------------- C23
\* C23: when end_session(S) returns, with or without the user identifier, S
\* is ended in the durable store and the fast store (here answering every
\* command) holds no pointer for S's owner.
C23_EndSessionRemovesPointer ==
    [][\A p \in Procs :
          ( /\ loc[p].op = "end" /\ pc[p] # "done"
            /\ pc'[p] = "done" /\ loc'[p].ret = "returned"
            /\ ClientMode = "served" )
          => /\ sessions'[loc[p].sid].status = "ended"
             /\ ptr'[sessions[loc[p].sid].user_id] = NoPtr]_vars

\* ---------------------------------------------------------------- C24
\* C24: prune_old_sessions selects every active session whose last_active is
\* older than the timeout, and each session it ends and counts is, when it is
\* ended, active and older than the timeout.
C24_PruneEndsOnlyExpired ==
    [][\A p \in Procs :
          (loc[p].op = "prune" /\ pc[p] \in {"p_select", "p_loop"})
          => /\ (pc[p] = "p_select" /\ pc'[p] = "p_loop")
                   => loc'[p].todo = {s \in DOMAIN sessions :
                                        /\ sessions[s].status = "active"
                                        /\ now - sessions[s].last_active
                                               > session_timeout_minutes}
             /\ \A s \in DOMAIN sessions :
                   (pc[p] = "p_loop" /\ s \in loc[p].todo /\ s \notin loc'[p].todo)
                   => /\ sessions[s].status = "active"
                      /\ now - sessions[s].last_active > session_timeout_minutes
                      /\ loc'[p].n = loc[p].n + 1]_vars

\* ---------------------------------------------------------------- C28
\* C28 as stated: when a handler that acquired the claim for M returns,
\* dedup:msg:M is not in the fast store.
C28_ClaimGoneAtReturn ==
    [][\A h \in Handlers :
          (hpc[h] = "release" /\ hpc'[h] = "done" /\ hloc[h].acquired)
          => dedup'[hloc[h].msg] = NoClaim]_vars

\* C28: when a handler that acquired the claim for M returns, after a reply,
\* an exception or no reply, it has called delete on dedup:msg:M: the key is
\* gone if the fast store served the delete, and otherwise is left as it was,
\* to expire within DEDUP_TTL.
C28_ClaimDeletedWhenServed ==
    [][\A h \in Handlers :
          (hpc[h] = "release" /\ hpc'[h] = "done" /\ hloc[h].acquired)
          => IF ClientMode = "served"
             THEN dedup'[hloc[h].msg] = NoClaim
             ELSE /\ dedup'[hloc[h].msg] = dedup[hloc[h].msg]
                  /\ dedup[hloc[h].msg].exp <= now + DEDUP_TTL]_vars

\* a handler that got the claim from the store sent its answer (the reply or
\* the apology) and returned, and the claim it had set is gone
C28_Witness ==
    \E h \in Handlers :
        /\ hpc[h] = "done" /\ hloc[h].acquired /\ hloc[h].how = "served"
        /\ hloc[h].sends = 1 /\ hloc[h].msg = 1
        /\ dedup[1] = NoClaim /\ ClientMode = "served"
        /\ \A g \in Handlers \ {h} : hpc[g] = "idle"

\* ---------------------------------------------------------------- C25
\* C25: when a durable-store statement of get_or_create_session or of
\* add_message has raised during an exchange, process_conversational_message
\* ends by raising, has not inserted into the response cache, and no message
\* row has been written after the failure.
C25_DbFailureAbortsExchange ==
    (ex.at = "done" /\ ex.dbfail)
        => /\ ex.ret = "raised"
           /\ ~ex.cached
           /\ Len(messages) = ex.rows

\* ---------------------------------------------------------------- C26
\* C26: the response cache never holds an entry stored for a message whose
\* intent is generate_image, submit_feature or unclear.
C26_DeniedIntentsNotCached ==
    \A m \in Texts, i \in {"generate_image", "submit_feature", "unclear"} :
        cache[generate_key(m, i)] = NoEntry

\* ---------------------------------------------------------------- C27
\* C27: when the cache check of an exchange runs while the cache holds an
\* unexpired entry that an earlier exchange stored for the same text, the
\* exchange ends there, returning that entry's response.
C27_RepeatedTextHitsCache ==
    [][\A i \in Intents :
          ( /\ ex.at = "cache_check" /\ ex'.at # "cache_check"
            /\ cache[generate_key(ex.text, i)] # NoEntry
            /\ now < cache[generate_key(ex.text, i)].timestamp + ttl )
          => /\ ex'.at = "done"
             /\ ex'.ret = cache[generate_key(ex.text, i)].response]_vars

\* ---------------------------------------------------------------- C29
\* C29: create_conversation_session calls for different users, overlapping or
\* not, all return and none raises; each returns a row of its own user, and
\* no two of them return the same id.
C29_CreationsDoNotInterfere ==
    \A p \in Procs :
        (pc[p] = "done" /\ loc[p].op = "create")
        => /\ loc[p].ret = "returned"
           /\ loc[p].val \in DOMAIN sessions
           /\ sessions[loc[p].val].user_id = loc[p].user
           /\ sessions[loc[p].val].status = "active"
           /\ \A q \in Procs \ {p} :
                 (pc[q] = "done" /\ loc[q].op = "create" /\ loc[q].user # loc[p].user)
                 => loc[q].val # loc[p].val

\* the call for B started while the call for A was in flight, and both returned
C29_Witness ==
    /\ pc[1] = "done" /\ pc[2] = "done" /\ pc[3] = "idle"
    /\ loc[1].op = "create" /\ loc[2].op = "create"
    /\ loc[1].user = "A" /\ loc[2].user = "B" /\ loc[2].peers = {1}
    /\ loc[1].val # loc[2].val /\ Len(sessions) = 2

\* ---------------------------------------------------------------- C30
\* C30: a get_or_create_session call that read a pointer to S returns S at
\* the confirmation exactly when S is then a row with status active;
\* otherwise it calls delete on the pointer (gone if the fast store serves the
\* delete), goes on to the durable store, and the session it returns is not S.
C30_PointerIsConfirmed ==
    [][\A p \in Procs :
          (loc[p].op = "goc" /\ pc'[p] # pc[p])
          => /\ pc[p] = "g_confirm"
                  => IF /\ loc[p].sid \in DOMAIN sessions
                        /\ sessions[loc[p].sid].status = "active"
                     THEN /\ pc'[p] = "done" /\ loc'[p].ret = "returned"
                          /\ loc'[p].val = loc[p].sid
                     ELSE pc'[p] = "g_unpoint"
             /\ (pc[p] = "g_unpoint" /\ ClientMode = "served")
                  => ptr'[loc[p].user] = NoPtr /\ pc'[p] = "g_db"
             /\ (pc'[p] = "done" /\ loc'[p].ret = "returned" /\ loc'[p].stale # 0)
                  => /\ loc'[p].val # loc'[p].stale
                     /\ sessions'[loc'[p].stale].status = "ended"]_vars

\* the pointer of A named session 1, which had been ended; the call deleted
\* the pointer and returned the new session 2
C30_Witness ==
    \E p \in Procs :
        /\ pc[p] = "done" /\ loc[p].op = "goc" /\ loc[p].user = "A"
        /\ loc[p].ret = "returned" /\ loc[p].stale = 1 /\ loc[p].val = 2
        /\ sessions[1].status = "ended" /\ sessions[2].status = "active"
        /\ ptr["A"].sid = 2

\* ---------------------------------------------------------------- C31
\* C31: whenever get_or_create_session(u) returns a session S while the fast
\* store serves calls, the pointer of u names S and expires a full session
\* timeout from now, on every path, the one through an existing pointer too.
C31_ResolutionRefreshesPointer ==
    [][\A p \in Procs :
          (/\ loc[p].op = "goc" /\ pc[p] # "done" /\ pc'[p] = "done"
           /\ loc'[p].ret = "returned" /\ loc'[p].val # 0
           /\ ClientMode = "served")
          => ptr'[loc[p].user] = [sid |-> loc'[p].val,
                                  exp |-> now + session_timeout_minutes]]_vars

\* ---------------------------------------------------------------- C32
\* C32: when prune_old_sessions or the expiry branch of get_or_create_session
\* has set a session to ended, no fast-store pointer names that session once
\* the operation has returned (the fast store being reachable, and having
\* served the delete the operation issued).
C32_EndingRemovesPointer ==
    [][\A p \in Procs :
          (/\ loc[p].op \in {"prune", "goc"} /\ pc[p] # "done" /\ pc'[p] = "done"
           /\ loc'[p].ret = "returned" /\ loc'[p].served /\ ClientMode = "served")
          => \A s \in loc'[p].ended : \A u \in Users : ptr'[u].sid # s]_vars

\* ---------------------------------------------------------------- C33
\* C33: a get_or_create_session(u) call that found u's active session S in
\* the durable store past the timeout returns a session it created itself,
\* different from S, and S is ended; a call that found S within the timeout,
\* S still being active and within it at the return, returns S and has
\* created nothing. (A session refreshed by a message between the lookup and
\* the return is not counted as found past the timeout.)
C33_ExpiredIsReplaced ==
    [][\A p \in Procs :
          (/\ loc[p].op = "goc" /\ pc[p] # "done" /\ pc'[p] = "done"
           /\ loc'[p].ret = "returned" /\ loc'[p].found # 0)
          => LET l == loc'[p]
                 freshNow == /\ sessions'[l.found].status = "active"
                             /\ ~is_expired(sessions'[l.found].last_active, now',
                                            session_timeout_minutes)
             IN /\ (l.age = "expired" /\ ~freshNow)
                      => /\ l.val # l.found /\ l.val = l.made
                         /\ sessions'[l.found].status = "ended"
                /\ (l.age = "fresh" /\ freshNow)
                      => l.val = l.found /\ l.made = 0]_vars

C35_BoundedCreation ==
    /\ [](\A p \in Procs : loc[p].op = "goc" => loc[p].attempt < max_attempts)
    /\ [][\A p \in Procs :
            (loc[p].op = "goc" /\ (pc'[p] # pc[p] \/ loc'[p].attempt # loc[p].attempt))
            => /\ (pc[p] = "g_create" /\ sessions' # sessions)
                    => pc'[p] = "g_point_new" /\ loc'[p].act = Len(sessions')
               /\ (pc[p] = "g_create" /\ sessions' = sessions)
                    => IF loc[p].attempt = max_attempts - 1
                       THEN pc'[p] = "done" /\ loc'[p].ret = "raised"
                       ELSE pc'[p] = "g_create" /\ loc'[p].attempt = loc[p].attempt + 1
               /\ pc[p] = "g_point_new"
                    => /\ pc'[p] = "done" /\ loc'[p].ret = "returned"
                       /\ loc'[p].val = loc[p].act]_vars
    /\ \A p \in SessionProcs : (pc[p] = "g_create") ~> (pc[p] = "done")

\* a call whose three attempts all failed has raised, while another call
\* returned the session it created on a later attempt
C35_Witness ==
    \E p, q \in Procs :
        /\ pc[p] = "done" /\ loc[p].op = "goc" /\ loc[p].ret = "raised"
        /\ loc[p].attempt = max_attempts - 1 /\ loc[p].made = 0
        /\ pc[q] = "done" /\ loc[q].op = "goc" /\ loc[q].ret = "returned"
        /\ loc[q].attempt > 0 /\ loc[q].val = loc[q].made /\ loc[q].made # 0

\* ---------------------------------------------------------------- C36
\* C36: of the two add_message calls of one exchange, the user message's row
\* is written before the reply's row: the history of the exchange's session
\* never starts with the assistant row.
C36_UserRowBeforeReplyRow ==
    \A p, q \in Procs :
        ( /\ loc[p].op = "add" /\ loc[q].op = "add"
          /\ loc[p].role = "user" /\ loc[q].role = "assistant"
          /\ loc[p].peers = {q} /\ loc[q].peers = {p}
          /\ HistoryOf(loc[p].sid) # <<>> )
        => HistoryOf(loc[p].sid)[1] = "user"

\* ---------------------------------------------------------------- C37
\* C37: after a RedisClient call all of whose attempts failed, so that the
\* fallback gave the result, consecutive_failures equals its value before the
\* call plus the number of failed attempts: the fallback's value does not
\* reset it.
C37_FallbackIsNoSuccess ==
    (call.at = "done" /\ call.fellback) => failures = call.base + call.failed

\* ---------------------------------------------------------------- C38
\* C38: no step of an add_message(S, u, ...) call whose pointer check failed
\* changes u's pointer while it names a session other than S: the pointer is
\* neither overwritten with S nor removed.
C38_AddMessageKeepsPointer ==
    [][\A p \in Procs :
          (/\ loc[p].op = "add" /\ pc'[p] # pc[p] /\ ~loc[p].valid
           /\ ptr[loc[p].user].sid \notin {0, loc[p].sid})
          => ptr'[loc[p].user] = ptr[loc[p].user]]_vars

\* ---------------------------------------------------------------- C39
\* C39: after any sequence of get, set, clear_expired and clear_all calls the
\* response cache holds at most max_size entries.
C39_CacheWithinMaxSize == Cardinality(Resident) <= max_size

\* a set of a new key found the cache full, evicted an entry, and the cache
\* is full again
C39_Witness ==
    /\ asked.op = "set" /\ asked.victim # "-" /\ asked.victim # asked.key
    /\ Cardinality(Resident) = max_size
    /\ stats.evictions > 0

\* ---------------------------------------------------------------- C40
\* C40: the only handler that deletes the dedup claim of a message is the one
\* whose acquire created it: no handler's release removes a claim that another
\* handler, still at work, holds.
C40_OnlyOwnerDeletesClaim ==
    [][\A h \in Handlers :
          (hpc[h] = "release" /\ hpc'[h] = "done")
          => LET m == hloc[h].msg
             IN (dedup[m].exp # 0 /\ dedup'[m] = NoClaim)
                => ~(dedup[m].owner # h /\ AtWork(dedup[m].owner))]_vars

====
